---- MODULE Spec2Model ----
(***************************************************************************)
(* State-machine model of the account / OTP controllers                    *)
(*   backend/controllers/auth/mobileAuthController.js                      *)
(*   backend/controllers/auth/phoneAuthController.js                       *)
(* and of the notification sweeps and the expense numbering                *)
(*   unnamed/part_003 (checkAbandonedCarts)                                *)
(*   unnamed/part_004 (checkWishlistPriceDrops, checkWishlistBackInStock)  *)
(*   backend/controllers/online/wishlistController.js (createExpense)      *)
(* The database collections are sets of records, a request handler is one  *)
(* action (or, in SpecConc, one action per stretch between two database    *)
(* awaits), and the clock is a millisecond counter.                        *)
(***************************************************************************)
EXTENDS Integers, Sequences, FiniteSets, TLC

VARIABLES
  users,      \* prisma.user collection: set of account records
  admins,     \* prisma.admin collection: set of account records
  customers,  \* prisma.customer collection: set of customer records
  sessions,   \* sessionManager: set of <<userId, token>>
  outbox,     \* work scheduled with setImmediate after the response
  welcomes,   \* number of welcome notifications scheduled, per account id
  now,        \* Date.now(), in milliseconds
  nextId,     \* next database object id
  resp,       \* the response of the last request answered
  reqs,       \* requests in flight between two database awaits (SpecConc)
  cartItems,    \* prisma cartItem rows: [userId, createdAt]
  onlineOrders, \* prisma.onlineOrder rows: [userId, createdAt]
  reminders,    \* calls of sendAbandonedCartReminder: [userId, type, last, at, itemCount]
  lastSweep,    \* the time checkAbandonedCarts last ran, Never before its first run
  sweepResult,  \* what the last sweep returned: [success, alertsSent, totalChecked]
  wishlistItems, \* prisma.wishlistItem rows, by id
  variants,      \* prisma.onlineProduct rows: productId -> sequence of variant prices
  stock,         \* prisma.onlineProduct rows: productId -> sequence of variant stock quantities
  alerts,        \* calls of sendPriceDropAlert / sendBackInStockAlert
  wishRuns,      \* runs of the two wishlist checks so far
  wishResult,    \* what the last wishlist check returned: [success, alertsSent, totalChecked]
  expenses,      \* prisma.expense rows
  year,          \* new Date().getFullYear()
  calls,         \* database and external-service calls made for the last request
  dispatched     \* setImmediate work that has run: <<job, succeeded>>

\* the state of the account controllers
auth == <<users, admins, customers, sessions, outbox, welcomes, now, nextId, resp, reqs>>

\* the state of the abandoned-cart sweep (it shares the clock, now)
carts == <<cartItems, onlineOrders, reminders, lastSweep, sweepResult>>

\* the state of the wishlist checks
wishes == <<wishlistItems, variants, stock, alerts, wishRuns, wishResult>>

\* the state of the expense controller (with the clock, now, and resp)
books == <<expenses, year>>

\* what the handlers did besides changing the database
effects == <<calls, dispatched>>

\* the state outside the account controllers
jobs == <<carts, wishes, books, effects>>

vars == <<auth, jobs>>

(***************************************************************************)
(* Bounds of the model.                                                    *)
(***************************************************************************)
\* the clock stops advancing here
MaxTime == 600001
\* one step of the Tick action, in milliseconds (10 minutes)
TickMs == 600000
\* most milliseconds that pass during clock reads between two Ticks
MaxSkew == 1
\* request slots that may overlap in SpecConc
MaxReqs == 2
\* distinct FCM device tokens offered in SpecFcm
MaxTokens == 12
\* devices of SpecFcm that log in again and again
MaxReturning == 2
\* the clock of SpecCart stops here (75 hours, past the end of the 3-day window)
MaxCartTime == 270000000
\* cart items put into carts in SpecCart, over all customers
MaxCartItems == 2
\* orders placed in SpecCart, over all customers
MaxOrders == 1
\* runs of the wishlist checks in SpecWish
MaxWishRuns == 3
\* expenses already in the table when SpecExp starts with a filled table
SeedExpenses == 98
\* the sequence numbers the formatting of expense numbers is probed with
MaxSequence == 1100
\* expenses created in SpecExp
MaxExpenses == 4
\* the last calendar year SpecExp reaches
MaxYear == 2027
\* setImmediate callbacks that run in SpecFault
MaxDispatched == 3
\* expenses created in SpecTrace
MaxTraceExpenses == 1
\* the last instant of SpecPass
MaxPassTime == 3600000
\* wishlist checks that run in SpecPass
MaxPassRuns == 1

(***************************************************************************)
(* Program constants.                                                      *)
(***************************************************************************)
\* 10 * 60 * 1000: lifetime of an OTP
OtpTtlMs == 600000
\* existingOTPs.slice(-4)
KeepOtps == 4
\* filteredTokens.slice(0, 10)
MaxFcmTokens == 10
\* 60 * 60 * 1000: age of the '1hour' reminder, tolerance of the '24hours' one
HourMs == 3600000
\* 24 * 60 * 60 * 1000: age of the '24hours' reminder
DayMs == 86400000
\* 3 * 24 * 60 * 60 * 1000: age of the '3days' reminder
ThreeDaysMs == 259200000
\* 10 * 60 * 1000: tolerance of the '1hour' reminder
TenMinutesMs == 600000
\* 2 * 60 * 60 * 1000: tolerance of the '3days' reminder
TwoHoursMs == 7200000
\* padStart(3, "0")
PadLength == 3
\* newPassword.length < 6
MinPasswordLength == 6

(***************************************************************************)
(* Value pools. "" is a missing (falsy) request field.                     *)
(***************************************************************************)
Missing == ""
ADMIN_EMAIL == "admin@x.io"
UserEmail == "u@x.io"
OtherEmail == "v@x.io"
AdminEmailMixed == "Admin@x.io"
BadEmail == "u-at-x"

PhoneA == "+919876543210"
PhoneB == "+916123456789"
PhoneUS == "+15551234567"
BadPhone == "12345"

NoPassword == <<>>
NoUid == ""
Never == -1
MobileDevice == "Mobile App"

\* String.prototype.toLowerCase on the pool of emails
ToLower(s) ==
  IF s = AdminEmailMixed THEN ADMIN_EMAIL ELSE s

\* /^[^\s@]+@[^\s@]+\.[^\s@]+$/ on the pool of emails
EmailRegexTest(e) ==
  e \in {ADMIN_EMAIL, UserEmail, OtherEmail, AdminEmailMixed}

\* /^\+?[\d\s-]{10,15}$/ on the pool of phone numbers
PhoneRegexTest(p) ==
  p \in {PhoneA, PhoneB, PhoneUS}

\* /^\+91[6-9]\d{9}$/ on the pool of phone numbers
StrictPhoneRegexTest(p) ==
  p \in {PhoneA, PhoneB}

\* /\S+@\S+\.\S+/ in mobileLogin: is the identifier an email?
IsEmail(s) ==
  s \in {ADMIN_EMAIL, UserEmail, OtherEmail, AdminEmailMixed}

\* bcrypt.hash(password, 12); the salt is left out
Hash(pw) ==
  <<"bcrypt", pw>>

\* bcrypt.compare(password, hash)
Compare(pw, h) ==
  h = Hash(pw)

\* jwt.sign({ userId }, secret, { expiresIn: "7d" }): the payload, iat in seconds
GenerateToken(userId, t) ==
  <<"jwt", userId, t \div 1000>>

NoToken == <<>>

(***************************************************************************)
(* Database helpers.                                                       *)
(***************************************************************************)
\* the record a query returns among its matches: the oldest one, as a set
First(matches) ==
  IF matches = {} THEN {}
  ELSE {CHOOSE a \in matches : \A b \in matches : a.id <= b.id}

\* findUnique({ where: { email } })
FindByEmail(coll, email) ==
  First({a \in coll : a.email = email})

\* FindByPhone that never finds anything: the phone number is not checked
FindByPhone_Nothing(coll, phoneNumber) ==
  {}

\* findFirst({ where: { phoneNumber } })
FindByPhone(coll, phoneNumber) ==
  First({a \in coll : a.phoneNumber = phoneNumber})

\* a stored record with the fields of data overwritten
Patch(a, data) ==
  [k \in DOMAIN a |-> IF k \in DOMAIN data THEN data[k] ELSE a[k]]

\* update({ where: { id }, data }): only the fields of data are written
Update(coll, id, data) ==
  {IF a.id = id THEN Patch(a, data) ELSE a : a \in coll}

\* column defaults of a created account
SchemaDefaults ==
  [isVerified |-> FALSE, isActive |-> TRUE, provider |-> "local",
   firebaseUid |-> NoUid, emailOTPs |-> <<>>, fcmTokens |-> <<>>,
   lastLogin |-> Never]

\* an account row as create({ data }) stores it
NewAccount(id, email, password, name, phoneNumber, otps, isVerified, provider, uid) ==
  [id |-> id, email |-> email, password |-> password, name |-> name,
   phoneNumber |-> phoneNumber,
   isVerified |-> isVerified, isActive |-> SchemaDefaults.isActive,
   provider |-> provider, firebaseUid |-> uid,
   emailOTPs |-> otps, fcmTokens |-> SchemaDefaults.fcmTokens,
   lastLogin |-> SchemaDefaults.lastLogin]

\* res.status(s).json({...}): flags are the boolean fields set beside error/message
Reply(op, status, success, message, flags, token) ==
  resp' = [op |-> op, status |-> status, success |-> success,
           message |-> message, flags |-> flags, token |-> token]

NoResp ==
  [op |-> "none", status |-> 0, success |-> FALSE, message |-> "",
   flags |-> {}, token |-> NoToken]

Accounts == users \cup admins

AuthInit ==
  /\ users = {}
  /\ admins = {}
  /\ customers = {}
  /\ sessions = {}
  /\ outbox = {}
  /\ welcomes = [i \in {} |-> 0]
  /\ now = 0
  /\ nextId = 1
  /\ resp = NoResp
  /\ reqs = [s \in 1..MaxReqs |-> [op |-> "idle"]]

\* no cart, no order, no reminder sent
CartsInit ==
  /\ cartItems = {}
  /\ onlineOrders = {}
  /\ reminders = {}
  /\ lastSweep = Never
  /\ sweepResult = [success |-> TRUE, alertsSent |-> 0, totalChecked |-> 0]

\* an empty wishlist
WishesInit ==
  /\ wishlistItems = [i \in {} |-> 0]
  /\ variants = [p \in {} |-> <<>>]
  /\ stock = [p \in {} |-> <<>>]
  /\ alerts = {}
  /\ wishRuns = 0
  /\ wishResult = [success |-> TRUE, alertsSent |-> 0, totalChecked |-> 0]

\* new Date().getFullYear() when the model starts
FirstYear == 2025

\* no expense yet
BooksInit ==
  /\ expenses = {}
  /\ year = FirstYear

\* no call made, no scheduled work run
EffectsInit ==
  /\ calls = <<>>
  /\ dispatched = {}

Init ==
  /\ AuthInit
  /\ CartsInit
  /\ WishesInit
  /\ BooksInit
  /\ EffectsInit

\* the clock values the model lets a handler reach while it reads the clock
ClockOk(t) ==
  t <= MaxTime /\ t % TickMs <= MaxSkew

\* time passes between two requests
Tick ==
  /\ now + TickMs <= MaxTime
  /\ now' = now + TickMs
  /\ UNCHANGED <<users, admins, customers, sessions, outbox, welcomes, nextId, resp, reqs>>

\* everything a handler working on the database may change, but the response
store == <<users, admins, customers, sessions, outbox, welcomes, now, nextId>>

\* an early return: the response and nothing else
Reject(op, status, message, flags) ==
  /\ Reply(op, status, FALSE, message, flags, NoToken)
  /\ UNCHANGED store

\* customer.findFirst({ where: { OR: [{ email }, { phoneNumber }] } })
FindCustomer(email, phoneNumber) ==
  First({c \in customers : c.email = email \/ c.phoneNumber = phoneNumber})

\* the create-or-link of the customer record of a new user account; verified is
\* FALSE in mobileRegister (isVerified: existing.isVerified || false, or false)
\* and TRUE in phoneRegister
LinkCustomer(user, custId, verified, provider) ==
  LET existing == FindCustomer(user.email, user.phoneNumber) IN
  IF existing # {}
  THEN {IF c \in existing
        THEN [c EXCEPT !.userId = user.id, !.isVerified = (c.isVerified \/ verified)]
        ELSE c : c \in customers}
  ELSE customers \cup
       {[id |-> custId, userId |-> user.id, email |-> user.email,
         name |-> user.name, phoneNumber |-> user.phoneNumber,
         isVerified |-> verified, provider |-> provider]}

\* one entry of emailOTPs: the expiry is computed from the clock read at t1
\* (Date.now() + 10 * 60 * 1000), createdAt is a second clock read at t2 >= t1
OtpEntry(otp, t1, t2) ==
  [otp |-> otp, expiresAt |-> t1 + OtpTtlMs, createdAt |-> t2]

\* mobileRegister; customerError says whether the customer create-or-link
\* throws (it is caught and logged, lines 217-220)
\* mobileRegister from bcrypt.hash on: the account, its customer record, the
\* response and the scheduled emails
MobileRegisterCreate(email, password, name, phoneNumber, otp, skew, customerError) ==
  LET op == "mobileRegister"
      isAdmin == ToLower(email) = ADMIN_EMAIL
      user == NewAccount(nextId, email, Hash(password), name, phoneNumber,
                         <<OtpEntry(otp, now, now + skew)>>,
                         SchemaDefaults.isVerified, SchemaDefaults.provider,
                         SchemaDefaults.firebaseUid)
  IN
  /\ ClockOk(now + skew)
  /\ now' = now + skew
  /\ users' = IF isAdmin THEN users ELSE users \cup {user}
  /\ admins' = IF isAdmin THEN admins \cup {user} ELSE admins
  /\ customers' = IF isAdmin \/ customerError THEN customers
                  ELSE LinkCustomer(user, nextId + 1, FALSE, "local")
  /\ nextId' = nextId + 2
  /\ Reply(op, 201, TRUE,
           "Registration successful. Please check your email for OTP to verify your account.",
           {"otpSent"}, NoToken)
  /\ outbox' = outbox \cup {<<"otpEmail", email, otp>>}
                      \cup (IF isAdmin THEN {} ELSE {<<"newUserAlert", email>>})
  /\ UNCHANGED <<sessions, welcomes>>

MobileRegisterSteps(email, password, name, phoneNumber, otp, skew, customerError) ==
  LET op == "mobileRegister"
      isAdmin == ToLower(email) = ADMIN_EMAIL
      own == IF isAdmin THEN admins ELSE users
      other == IF isAdmin THEN users ELSE admins
      exists == "Account already exists. Please sign in with your email or phone number and password."
  IN
  /\ UNCHANGED reqs
  /\ IF email = Missing \/ password = Missing \/ name = Missing \/ phoneNumber = Missing
     THEN Reject(op, 400, "Email, password, name, and phone number are required", {})
     ELSE IF ~EmailRegexTest(email)
     THEN Reject(op, 400, "Invalid email format", {})
     ELSE IF ~PhoneRegexTest(phoneNumber)
     THEN Reject(op, 400, "Invalid phone number format", {})
     ELSE IF FindByEmail(own, email) # {} \/ FindByEmail(other, email) # {}
     THEN Reject(op, 400, exists, {})
     ELSE IF FindByPhone(own, phoneNumber) # {} \/ FindByPhone(other, phoneNumber) # {}
     THEN Reject(op, 400, exists, {})
     ELSE MobileRegisterCreate(email, password, name, phoneNumber, otp, skew, customerError)

\* POST /api/auth/mobile/register
MobileRegister(email, password, name, phoneNumber, otp, skew) ==
  MobileRegisterSteps(email, password, name, phoneNumber, otp, skew, FALSE)

\* user.findUnique({ where: { email } }), then admin.findUnique: the account
\* and its userType, as a set of at most one <<account, userType>>
FindAccount(email) ==
  IF FindByEmail(users, email) # {}
  THEN {<<a, "user">> : a \in FindByEmail(users, email)}
  ELSE {<<a, "admin">> : a \in FindByEmail(admins, email)}

\* the loop from the newest entry to the oldest: the index of the first entry
\* at or below i with entry.otp === otp and expiresAt > t, or 0
RECURSIVE ScanValid(_, _, _, _)
ScanValid(otpArray, i, otp, t) ==
  IF i = 0 THEN 0
  ELSE IF otpArray[i].otp = otp /\ otpArray[i].expiresAt > t THEN i
  ELSE ScanValid(otpArray, i - 1, otp, t)

\* HasCode looking at the newest entry only
HasCode_NewestOnly(otpArray, otp) ==
  otpArray[Len(otpArray)].otp = otp

\* otpArray.find(entry => entry.otp === otp) finds an entry
HasCode(otpArray, otp) ==
  \E i \in 1..Len(otpArray) : otpArray[i].otp = otp

\* one more welcome notification scheduled for account id
Inc(f, id) ==
  [i \in DOMAIN f \cup {id} |->
     IF i = id THEN (IF id \in DOMAIN f THEN f[id] ELSE 0) + 1 ELSE f[i]]

\* VerifyUpdateData without the clearing of the OTPs
VerifyUpdateData_KeepOtps ==
  [isVerified |-> TRUE]

\* updateData of verifyOTP: the account is verified and all its OTPs cleared
VerifyUpdateData ==
  [isVerified |-> TRUE, emailOTPs |-> <<>>]

\* verifyOTP from the account lookup on: user is the record the lookup returned
VerifyFoundSteps(user, userType, otp, customerError) ==
  LET op == "verifyOTP"
      otpArray == user.emailOTPs
      updateData == VerifyUpdateData
  IN
  IF user.isVerified
  THEN /\ Reply(op, 200, TRUE, "Email already verified", {"alreadyVerified"}, NoToken)
       /\ UNCHANGED store
  ELSE IF Len(otpArray) = 0
  THEN Reject(op, 400, "No OTP found. Please request a new OTP.", {})
  ELSE IF ScanValid(otpArray, Len(otpArray), otp, now) = 0
  THEN IF HasCode(otpArray, otp)
       THEN Reject(op, 400, "OTP has expired. Please request a new OTP.", {"expired"})
       ELSE Reject(op, 400, "Invalid OTP. Please check and try again.", {})
  ELSE
    /\ users' = IF userType = "admin" THEN users ELSE Update(users, user.id, updateData)
    /\ admins' = IF userType = "admin" THEN Update(admins, user.id, updateData) ELSE admins
    /\ customers' = IF userType = "admin" \/ customerError THEN customers
                    ELSE {IF c.userId = user.id THEN [c EXCEPT !.isVerified = TRUE] ELSE c
                          : c \in customers}
    /\ welcomes' = IF userType = "user" THEN Inc(welcomes, user.id) ELSE welcomes
    /\ Reply(op, 200, TRUE, "Email verified successfully", {"isVerified"}, NoToken)
    /\ UNCHANGED <<sessions, outbox, now, nextId>>

\* verifyOTP from the account lookup on, the customer update succeeding
VerifyFound(user, userType, otp) ==
  VerifyFoundSteps(user, userType, otp, FALSE)

\* POST /api/auth/mobile/verify-otp
VerifyOTP(email, otp) ==
  /\ UNCHANGED reqs
  /\ IF email = Missing \/ otp = Missing
     THEN Reject("verifyOTP", 400, "Email and OTP are required", {})
     ELSE IF FindAccount(email) = {}
     THEN Reject("verifyOTP", 404, "User not found", {})
     ELSE \E f \in FindAccount(email) : VerifyFound(f[1], f[2], otp)

\* verifyOTP with a failure of customer.updateMany (lines 388-395)
VerifyOTPFaulty(email, otp, customerError) ==
  /\ UNCHANGED reqs
  /\ IF email = Missing \/ otp = Missing
     THEN Reject("verifyOTP", 400, "Email and OTP are required", {})
     ELSE IF FindAccount(email) = {}
     THEN Reject("verifyOTP", 404, "User not found", {})
     ELSE \E f \in FindAccount(email) : VerifyFoundSteps(f[1], f[2], otp, customerError)

\* SliceLast with slice(-5): one entry too many is kept
SliceLast_KeepFive(otpArray) ==
  IF Len(otpArray) <= KeepOtps + 1 THEN otpArray
  ELSE SubSeq(otpArray, Len(otpArray) - KeepOtps, Len(otpArray))

\* existingOTPs.slice(-4)
SliceLast(otpArray) ==
  IF Len(otpArray) <= KeepOtps THEN otpArray
  ELSE SubSeq(otpArray, Len(otpArray) - KeepOtps + 1, Len(otpArray))

\* [...existingOTPs.slice(-4), { otp, expiresAt, createdAt }]
UpdatedOTPs(existingOTPs, entry) ==
  Append(SliceLast(existingOTPs), entry)

\* variant: resendOTP does not look at the verification flag
IsVerified_Ignored(user) ==
  FALSE

\* if (user.isVerified) in resendOTP
IsVerified(user) ==
  user.isVerified

\* resendOTP from the account lookup on: user is the record the lookup returned
ResendFound(user, userType, otp, skew) ==
  LET op == "resendOTP"
      updatedOTPs == UpdatedOTPs(user.emailOTPs, OtpEntry(otp, now, now + skew))
  IN
  IF IsVerified(user)
  THEN /\ Reply(op, 200, TRUE, "Email already verified", {"alreadyVerified"}, NoToken)
       /\ UNCHANGED store
  ELSE
    /\ ClockOk(now + skew)
    /\ now' = now + skew
    /\ users' = IF userType = "admin" THEN users
                ELSE Update(users, user.id, [emailOTPs |-> updatedOTPs])
    /\ admins' = IF userType = "admin"
                 THEN Update(admins, user.id, [emailOTPs |-> updatedOTPs])
                 ELSE admins
    /\ Reply(op, 200, TRUE, "New OTP sent to your email", {"otpSent"}, NoToken)
    /\ outbox' = outbox \cup {<<"otpEmail", user.email, otp>>}
    /\ UNCHANGED <<customers, sessions, welcomes, nextId>>

\* POST /api/auth/mobile/resend-otp
ResendOTP(email, otp, skew) ==
  /\ UNCHANGED reqs
  /\ IF email = Missing
     THEN Reject("resendOTP", 400, "Email is required", {})
     ELSE IF FindAccount(email) = {}
     THEN Reject("resendOTP", 404, "User not found", {})
     ELSE \E f \in FindAccount(email) : ResendFound(f[1], f[2], otp, skew)

\* PushToken without the filter that removes the token already present
PushToken_NoFilter(existingTokens, fcmToken, device, t) ==
  LET pushed == <<[token |-> fcmToken, device |-> device, lastUsed |-> t]>> \o existingTokens
  IN IF Len(pushed) <= MaxFcmTokens THEN pushed ELSE SubSeq(pushed, 1, MaxFcmTokens)

\* existingTokens.filter(t => t.token !== fcmToken), unshift of the new entry,
\* slice(0, 10)
PushToken(existingTokens, fcmToken, device, t) ==
  LET filteredTokens == SelectSeq(existingTokens, LAMBDA e : e.token # fcmToken)
      pushed == <<[token |-> fcmToken, device |-> device, lastUsed |-> t]>> \o filteredTokens
  IN IF Len(pushed) <= MaxFcmTokens THEN pushed ELSE SubSeq(pushed, 1, MaxFcmTokens)

\* the identifier's lookup of mobileLogin: by email or by phone number, the
\* user collection first, then the admin collection
FindLogin(identifier) ==
  LET inUsers == IF IsEmail(identifier) THEN FindByEmail(users, identifier)
                 ELSE FindByPhone(users, identifier)
      inAdmins == IF IsEmail(identifier) THEN FindByEmail(admins, identifier)
                  ELSE FindByPhone(admins, identifier)
  IN IF inUsers # {} THEN {<<a, "user">> : a \in inUsers}
     ELSE {<<a, "admin">> : a \in inAdmins}

\* LoginGate without the isVerified check
LoginGate_NoVerifiedCheck(user, password) ==
  IF ~user.isActive
  THEN [status |-> 401, message |-> "Account is deactivated. Please contact administrator.",
        flags |-> {}]
  ELSE IF user.password = NoPassword /\ user.provider = "google"
  THEN [status |-> 401, message |-> "Please sign in with Google", flags |-> {"useGoogleAuth"}]
  ELSE IF user.password = NoPassword
  THEN [status |-> 500, message |-> "Login failed", flags |-> {}]
  ELSE IF ~Compare(password, user.password)
  THEN [status |-> 401, message |-> "Invalid email or password", flags |-> {}]
  ELSE [status |-> 0, message |-> "", flags |-> {}]

\* LoginGate without the bcrypt.compare check
LoginGate_NoPasswordCheck(user, password) ==
  IF ~user.isActive
  THEN [status |-> 401, message |-> "Account is deactivated. Please contact administrator.",
        flags |-> {}]
  ELSE IF ~user.isVerified
  THEN [status |-> 401,
        message |-> "Please verify your email before signing in. Check your inbox for the OTP.",
        flags |-> {"needsVerification"}]
  ELSE IF user.password = NoPassword /\ user.provider = "google"
  THEN [status |-> 401, message |-> "Please sign in with Google", flags |-> {"useGoogleAuth"}]
  ELSE IF user.password = NoPassword
  THEN [status |-> 500, message |-> "Login failed", flags |-> {}]
  ELSE [status |-> 0, message |-> "", flags |-> {}]

\* the checks of mobileLogin on the account found, in the order of the code:
\* the rejection to answer, or status 0 to let the login through
LoginGate(user, password) ==
  IF ~user.isActive
  THEN [status |-> 401, message |-> "Account is deactivated. Please contact administrator.",
        flags |-> {}]
  ELSE IF ~user.isVerified
  THEN [status |-> 401,
        message |-> "Please verify your email before signing in. Check your inbox for the OTP.",
        flags |-> {"needsVerification"}]
  ELSE IF user.password = NoPassword /\ user.provider = "google"
  THEN [status |-> 401, message |-> "Please sign in with Google", flags |-> {"useGoogleAuth"}]
  ELSE IF user.password = NoPassword
  THEN [status |-> 500, message |-> "Login failed", flags |-> {}]
  ELSE IF ~Compare(password, user.password)
  THEN [status |-> 401, message |-> "Invalid email or password", flags |-> {}]
  ELSE [status |-> 0, message |-> "", flags |-> {}]

\* mobileLogin from the account lookup on
LoginFound(user, userType, password, fcmToken) ==
  LET op == "mobileLogin"
      gate == LoginGate(user, password)
      token == GenerateToken(user.id, now)
      updateData == IF fcmToken # Missing
                    THEN [lastLogin |-> now,
                          fcmTokens |-> PushToken(user.fcmTokens, fcmToken, MobileDevice, now)]
                    ELSE [lastLogin |-> now]
  IN
  IF gate.status # 0
  THEN Reject(op, gate.status, gate.message, gate.flags)
  ELSE
    /\ users' = IF userType = "admin" THEN users ELSE Update(users, user.id, updateData)
    /\ admins' = IF userType = "admin" THEN Update(admins, user.id, updateData) ELSE admins
    /\ sessions' = sessions \cup {<<user.id, token>>}
    /\ Reply(op, 200, TRUE, "Login successful", {}, token)
    /\ UNCHANGED <<customers, outbox, welcomes, now, nextId>>

\* POST /api/auth/mobile/login
MobileLogin(identifier, password, fcmToken) ==
  /\ UNCHANGED reqs
  /\ IF identifier = Missing \/ password = Missing
     THEN Reject("mobileLogin", 400, "Email or phone number and password are required", {})
     ELSE IF FindLogin(identifier) = {}
     THEN Reject("mobileLogin", 401, "Invalid email/phone number or password", {})
     ELSE \E f \in FindLogin(identifier) : LoginFound(f[1], f[2], password, fcmToken)

\* the Firebase ID tokens of the pool; FbBad is one verifyIdToken rejects
FbA == "fb-token-A"
FbB == "fb-token-B"
FbUS == "fb-token-US"
FbBad == "fb-token-bad"

\* admin.auth().verifyIdToken(firebaseToken): the decoded token, or none (it throws)
VerifyIdToken(firebaseToken) ==
  IF firebaseToken = FbA THEN {[phone_number |-> PhoneA, uid |-> "uid-A"]}
  ELSE IF firebaseToken = FbB THEN {[phone_number |-> PhoneB, uid |-> "uid-B"]}
  ELSE IF firebaseToken = FbUS THEN {[phone_number |-> PhoneUS, uid |-> "uid-US"]}
  ELSE {}

PhoneMismatch_Never(decodedToken, phoneNumber) ==
  FALSE

\* decodedToken.phone_number !== phoneNumber
PhoneMismatch(decodedToken, phoneNumber) ==
  decodedToken.phone_number # phoneNumber

\* findFirst({ where: { OR: [{ email }, { phoneNumber }, { firebaseUid }] } })
FindAny(coll, email, phoneNumber, uid) ==
  First({a \in coll : a.email = email \/ a.phoneNumber = phoneNumber \/ a.firebaseUid = uid})

\* phoneRegister from bcrypt.hash on; customerError says whether the customer
\* create-or-link throws (caught and logged, lines 206-208), sessionError
\* whether generateToken or sessionManager.addSession throws (lines 211-214,
\* caught only by the handler's outer catch)
PhoneRegisterCreate(decodedToken, name, email, phoneNumber, password, customerError, sessionError) ==
  LET op == "phoneRegister"
      user == NewAccount(nextId, email, Hash(password), name, phoneNumber,
                         SchemaDefaults.emailOTPs, TRUE, "phone", decodedToken.uid)
      token == GenerateToken(user.id, now)
  IN
  /\ users' = users \cup {user}
  /\ customers' = IF customerError THEN customers
                  ELSE LinkCustomer(user, nextId + 1, TRUE, "phone")
  /\ nextId' = nextId + 2
  /\ IF sessionError
     THEN /\ Reply(op, 500, FALSE, "Registration failed. Please try again.", {}, NoToken)
          /\ UNCHANGED <<sessions, outbox>>
     ELSE /\ sessions' = sessions \cup {<<user.id, token>>}
          /\ Reply(op, 201, TRUE, "Registration successful", {"isVerified"}, token)
          /\ outbox' = outbox \cup {<<"registerNotifications", email>>}
  /\ UNCHANGED <<admins, welcomes, now>>

\* phoneRegister once the Firebase token is decoded
PhoneRegisterSteps(decodedToken, name, email, phoneNumber, password, customerError, sessionError) ==
  LET op == "phoneRegister"
  IN
  IF PhoneMismatch(decodedToken, phoneNumber)
  THEN Reject(op, 401, "Phone number mismatch. Please try again.", {})
  ELSE IF ~EmailRegexTest(email)
  THEN Reject(op, 400, "Invalid email format", {})
  ELSE IF ~StrictPhoneRegexTest(phoneNumber)
  THEN Reject(op, 400, "Invalid phone number format. Use +91XXXXXXXXXX", {})
  ELSE IF FindAny(users, email, phoneNumber, decodedToken.uid) # {}
          \/ FindAny(admins, email, phoneNumber, decodedToken.uid) # {}
  THEN Reject(op, 400,
              "Account already exists with this email or phone number. Please sign in.", {})
  ELSE PhoneRegisterCreate(decodedToken, name, email, phoneNumber, password,
                           customerError, sessionError)

\* phoneRegister when every step after the account creation succeeds
PhoneRegisterDecoded(decodedToken, name, email, phoneNumber, password) ==
  PhoneRegisterSteps(decodedToken, name, email, phoneNumber, password, FALSE, FALSE)

\* POST /api/auth/mobile/phone-register
PhoneRegister(name, email, phoneNumber, password, firebaseToken) ==
  /\ UNCHANGED reqs
  /\ IF name = Missing \/ email = Missing \/ phoneNumber = Missing
        \/ password = Missing \/ firebaseToken = Missing
     THEN Reject("phoneRegister", 400, "All fields are required including Firebase token", {})
     ELSE IF VerifyIdToken(firebaseToken) = {}
     THEN Reject("phoneRegister", 401,
                 "Invalid Firebase token. Please verify your phone number again.", {})
     ELSE \E d \in VerifyIdToken(firebaseToken) :
            PhoneRegisterDecoded(d, name, email, phoneNumber, password)

\* phoneRegister with failures of the steps that follow the account creation
PhoneRegisterFaulty(name, email, phoneNumber, password, firebaseToken, customerError, sessionError) ==
  /\ UNCHANGED reqs
  /\ IF name = Missing \/ email = Missing \/ phoneNumber = Missing
        \/ password = Missing \/ firebaseToken = Missing
     THEN Reject("phoneRegister", 400, "All fields are required including Firebase token", {})
     ELSE IF VerifyIdToken(firebaseToken) = {}
     THEN Reject("phoneRegister", 401,
                 "Invalid Firebase token. Please verify your phone number again.", {})
     ELSE \E d \in VerifyIdToken(firebaseToken) :
            PhoneRegisterSteps(d, name, email, phoneNumber, password, customerError, sessionError)

\* phoneLogin once the Firebase token is decoded
PhoneLoginDecoded(decodedToken, phoneNumber, fcmToken) ==
  LET op == "phoneLogin"
      found == FindByPhone(users, phoneNumber)
  IN
  IF PhoneMismatch(decodedToken, phoneNumber)
  THEN Reject(op, 401, "Phone number mismatch. Please try again.", {})
  ELSE IF found = {}
  THEN Reject(op, 404, "Account not found. Please register first.", {"needsRegistration"})
  ELSE \E user \in found :
    LET token == GenerateToken(user.id, now)
        base == [lastLogin |-> now, firebaseUid |-> decodedToken.uid]
        updateData == IF fcmToken # Missing
                      THEN [lastLogin |-> now, firebaseUid |-> decodedToken.uid,
                            fcmTokens |-> PushToken(user.fcmTokens, fcmToken, MobileDevice, now)]
                      ELSE base
    IN
    IF ~user.isActive
    THEN Reject(op, 401, "Account is deactivated. Please contact administrator.", {})
    ELSE
      /\ users' = Update(users, user.id, updateData)
      /\ sessions' = sessions \cup {<<user.id, token>>}
      /\ Reply(op, 200, TRUE, "Login successful", {}, token)
      /\ UNCHANGED <<admins, customers, outbox, welcomes, now, nextId>>

\* POST /api/auth/mobile/phone-login
PhoneLogin(phoneNumber, firebaseToken, fcmToken) ==
  /\ UNCHANGED reqs
  /\ IF phoneNumber = Missing \/ firebaseToken = Missing
     THEN Reject("phoneLogin", 400, "Phone number and Firebase token are required", {})
     ELSE IF VerifyIdToken(firebaseToken) = {}
     THEN Reject("phoneLogin", 401,
                 "Invalid Firebase token. Please verify your phone number again.", {})
     ELSE \E d \in VerifyIdToken(firebaseToken) : PhoneLoginDecoded(d, phoneNumber, fcmToken)

\* the passwords a reset request can carry
LongPassword == "secret12"
ShortPassword == "abc"

\* String.prototype.length on the pool of passwords
StrLen(str) ==
  IF str = Missing THEN 0
  ELSE IF str = LongPassword THEN 8
  ELSE 3

\* resetPasswordWithPhone once the Firebase token is decoded
ResetPasswordDecoded(decodedToken, phoneNumber, newPassword) ==
  LET op == "resetPasswordWithPhone"
      foundUser == FindByPhone(users, phoneNumber)
      found == IF foundUser # {} THEN {<<u, "user">> : u \in foundUser}
               ELSE {<<a, "admin">> : a \in FindByPhone(admins, phoneNumber)}
      data == [password |-> Hash(newPassword)]
  IN
  IF PhoneMismatch(decodedToken, phoneNumber)
  THEN Reject(op, 401, "Phone number mismatch. Please try again.", {})
  ELSE IF found = {}
  THEN Reject(op, 404, "Account not found with this phone number", {})
  ELSE \E f \in found :
    IF ~f[1].isActive
    THEN Reject(op, 401, "Account is deactivated. Please contact administrator.", {})
    ELSE
      /\ users' = IF f[2] = "admin" THEN users ELSE Update(users, f[1].id, data)
      /\ admins' = IF f[2] = "admin" THEN Update(admins, f[1].id, data) ELSE admins
      /\ Reply(op, 200, TRUE,
               "Password reset successful. You can now sign in with your new password.",
               {}, NoToken)
      /\ UNCHANGED <<customers, sessions, outbox, welcomes, now, nextId>>

\* POST /api/auth/mobile/reset-password-phone
ResetPasswordWithPhone(phoneNumber, newPassword, firebaseToken) ==
  /\ UNCHANGED reqs
  /\ IF phoneNumber = Missing \/ newPassword = Missing \/ firebaseToken = Missing
     THEN Reject("resetPasswordWithPhone", 400,
                 "Phone number, new password, and Firebase token are required", {})
     ELSE IF StrLen(newPassword) < MinPasswordLength
     THEN Reject("resetPasswordWithPhone", 400, "Password must be at least 6 characters", {})
     ELSE IF VerifyIdToken(firebaseToken) = {}
     THEN Reject("resetPasswordWithPhone", 401,
                 "Invalid Firebase token. Please verify your phone number again.", {})
     ELSE \E d \in VerifyIdToken(firebaseToken) :
            ResetPasswordDecoded(d, phoneNumber, newPassword)

(***************************************************************************)
(* The calls a handler makes for one request, in order: "firebase" is      *)
(* admin.auth().verifyIdToken, "db" a run of consecutive prisma queries,   *)
(* "s3" an upload. Work scheduled with setImmediate is not part of it.     *)
(***************************************************************************)
\* mobileRegister: the three checks of lines 74-98 precede the first query
MobileRegisterCalls(email, password, name, phoneNumber) ==
  IF email = Missing \/ password = Missing \/ name = Missing \/ phoneNumber = Missing
  THEN <<>>
  ELSE IF ~EmailRegexTest(email) THEN <<>>
  ELSE IF ~PhoneRegexTest(phoneNumber) THEN <<>>
  ELSE <<"db">>

\* verifyOTP: the presence check of lines 296-301, then the account lookup
VerifyOTPCalls(email, otp) ==
  IF email = Missing \/ otp = Missing THEN <<>> ELSE <<"db">>

\* resendOTP: the presence check of lines 443-448, then the account lookup
ResendOTPCalls(email) ==
  IF email = Missing THEN <<>> ELSE <<"db">>

\* mobileLogin: the presence check of lines 564-569, then the account lookup
MobileLoginCalls(identifier, password) ==
  IF identifier = Missing \/ password = Missing THEN <<>> ELSE <<"db">>

\* phoneRegister: verifyIdToken (line 84) runs after the presence check and
\* before the two format checks (lines 103-118); the queries follow them
PhoneRegisterCalls(name, email, phoneNumber, password, firebaseToken) ==
  IF name = Missing \/ email = Missing \/ phoneNumber = Missing
     \/ password = Missing \/ firebaseToken = Missing
  THEN <<>>
  ELSE IF VerifyIdToken(firebaseToken) = {} THEN <<"firebase">>
  ELSE IF \A d \in VerifyIdToken(firebaseToken) : PhoneMismatch(d, phoneNumber)
  THEN <<"firebase">>
  ELSE IF ~EmailRegexTest(email) THEN <<"firebase">>
  ELSE IF ~StrictPhoneRegexTest(phoneNumber) THEN <<"firebase">>
  ELSE <<"firebase", "db">>

\* phoneLogin: the presence check, verifyIdToken (line 285), then the lookup
PhoneLoginCalls(phoneNumber, firebaseToken) ==
  IF phoneNumber = Missing \/ firebaseToken = Missing THEN <<>>
  ELSE IF VerifyIdToken(firebaseToken) = {} THEN <<"firebase">>
  ELSE IF \A d \in VerifyIdToken(firebaseToken) : PhoneMismatch(d, phoneNumber)
  THEN <<"firebase">>
  ELSE <<"firebase", "db">>

\* resetPasswordWithPhone: the presence and length checks, verifyIdToken
\* (line 752), then the lookups
ResetPasswordCalls(phoneNumber, newPassword, firebaseToken) ==
  IF phoneNumber = Missing \/ newPassword = Missing \/ firebaseToken = Missing THEN <<>>
  ELSE IF StrLen(newPassword) < MinPasswordLength THEN <<>>
  ELSE IF VerifyIdToken(firebaseToken) = {} THEN <<"firebase">>
  ELSE IF \A d \in VerifyIdToken(firebaseToken) : PhoneMismatch(d, phoneNumber)
  THEN <<"firebase">>
  ELSE <<"firebase", "db">>

(***************************************************************************)
(* The environment: what the rest of the platform does to the accounts.    *)
(***************************************************************************)
\* an administrator deactivates an account (isActive: false)
Deactivate(id) ==
  /\ \E a \in Accounts : a.id = id /\ a.isActive
  /\ users' = Update(users, id, [isActive |-> FALSE])
  /\ admins' = Update(admins, id, [isActive |-> FALSE])
  /\ UNCHANGED <<customers, sessions, outbox, welcomes, now, nextId, resp, reqs>>

\* a sign-up through one of the platform's other flows (web form, Google): a
\* user row with no emailOTPs; a Google row has no password and is verified
ExternalSignup(email, phoneNumber, provider) ==
  /\ \A a \in Accounts : a.email # email /\ a.phoneNumber # phoneNumber
  /\ users' = users \cup
       {NewAccount(nextId, email,
                   IF provider = "google" THEN NoPassword ELSE Hash("pw1"),
                   "N", phoneNumber, SchemaDefaults.emailOTPs,
                   provider = "google", provider, SchemaDefaults.firebaseUid)}
  /\ nextId' = nextId + 1
  /\ UNCHANGED <<admins, customers, sessions, outbox, welcomes, now, resp, reqs>>

(***************************************************************************)
(* checkAbandonedCarts (unnamed/part_003).                                 *)
(***************************************************************************)
CartUsers == {"u1", "u2"}

\* the customers that have cart items (customer.findMany, cartItems: some)
CustomersWithCarts ==
  {i.userId : i \in cartItems}

\* cartItems[0].createdAt, the items ordered by createdAt desc
LastCartActivity(userId) ==
  LET times == {i.createdAt : i \in {j \in cartItems : j.userId = userId}}
  IN CHOOSE t \in times : \A o \in times : o <= t

\* variant: only orders placed strictly after the last cart activity count
RecentOrders_StrictlyAfter(userId, lastCartActivity) ==
  {o \in onlineOrders : o.userId = userId /\ o.createdAt > lastCartActivity}

\* onlineOrder.findMany({ userId, createdAt: { gte: lastCartActivity } })
RecentOrders(userId, lastCartActivity) ==
  {o \in onlineOrders : o.userId = userId /\ o.createdAt >= lastCartActivity}

\* lastCartActivity >= oneHourWindow && lastCartActivity <= oneHourWindowEnd
InOneHourWindow(lastCartActivity, t) ==
  LET oneHourAgo == t - HourMs
  IN /\ lastCartActivity >= oneHourAgo - TenMinutesMs
     /\ lastCartActivity <= oneHourAgo + TenMinutesMs

\* variant: a tolerance of a whole day around the 24-hour mark
InTwentyFourHourWindow_DayTolerance(lastCartActivity, t) ==
  LET twentyFourHoursAgo == t - DayMs
  IN /\ lastCartActivity >= twentyFourHoursAgo - DayMs
     /\ lastCartActivity <= twentyFourHoursAgo + DayMs

InTwentyFourHourWindow(lastCartActivity, t) ==
  LET twentyFourHoursAgo == t - DayMs
  IN /\ lastCartActivity >= twentyFourHoursAgo - HourMs
     /\ lastCartActivity <= twentyFourHoursAgo + HourMs

InThreeDaysWindow(lastCartActivity, t) ==
  LET threeDaysAgo == t - ThreeDaysMs
  IN /\ lastCartActivity >= threeDaysAgo - TwoHoursMs
     /\ lastCartActivity <= threeDaysAgo + TwoHoursMs

NoReminder == "none"

\* the three ifs in source order: a later window overwrites an earlier one
ReminderType(lastCartActivity, t) ==
  LET r1 == IF InOneHourWindow(lastCartActivity, t) THEN "1hour" ELSE NoReminder
      r2 == IF InTwentyFourHourWindow(lastCartActivity, t) THEN "24hours" ELSE r1
  IN IF InThreeDaysWindow(lastCartActivity, t) THEN "3days" ELSE r2

\* the customers of one sweep that reach sendAbandonedCartReminder
Reminded(t) ==
  {u \in CustomersWithCarts :
     /\ RecentOrders(u, LastCartActivity(u)) = {}
     /\ ReminderType(LastCartActivity(u), t) # NoReminder}

\* variant: an error in one iteration ends the loop
RemainingAfter_Abort(queue, raised) ==
  IF raised THEN <<>> ELSE Tail(queue)

\* for (const record of records) { try { ... } catch (error) { console.error } }:
\* the records still to visit after the first of queue, whose body raised or not
RemainingAfter(queue, raised) ==
  Tail(queue)

\* the records one pass over queue visits; raised are those whose body throws
RECURSIVE Visited(_, _)
Visited(queue, raised) ==
  IF queue = <<>> THEN {}
  ELSE {Head(queue)} \cup Visited(RemainingAfter(queue, Head(queue) \in raised), raised)

\* customersWithCarts in the order findMany returns them
CartQueue ==
  SelectSeq(<<"u1", "u2">>, LAMBDA u : u \in CustomersWithCarts)

\* one run of the sweep; failed are the customers whose send reports no
\* success, thrown those whose iteration throws before a reminder is sent
CheckAbandonedCartsSteps(failed, thrown) ==
  LET sent == (Reminded(now) \cap Visited(CartQueue, thrown)) \ thrown
  IN
  /\ thrown \subseteq CustomersWithCarts
  /\ failed \subseteq sent
  /\ reminders' = reminders \cup
       {[userId |-> u,
         type |-> ReminderType(LastCartActivity(u), now),
         last |-> LastCartActivity(u),
         at |-> now,
         itemCount |-> Cardinality({i \in cartItems : i.userId = u})] : u \in sent}
  /\ sweepResult' = [success |-> TRUE,
                     alertsSent |-> Cardinality(sent \ failed),
                     totalChecked |-> Cardinality(CustomersWithCarts)]
  /\ lastSweep' = now
  /\ UNCHANGED <<cartItems, onlineOrders>>

\* one run of the sweep in which no iteration throws
CheckAbandonedCarts(failed) ==
  CheckAbandonedCartsSteps(failed, {})

(***************************************************************************)
(* checkWishlistPriceDrops, checkWishlistBackInStock (unnamed/part_004).   *)
(***************************************************************************)
\* a field that productData does not have (undefined)
Absent == -1

\* a || b on numbers: b when a is undefined or 0
OrElse(a, b) ==
  IF a = Absent \/ a = 0 THEN b ELSE a

\* a < b on numbers: false when either side is undefined
LessThan(a, b) ==
  a # Absent /\ b # Absent /\ a < b

\* productData.variantSellingPrice || productData.price
StoredPrice(productData) ==
  OrElse(productData.variantSellingPrice, productData.price)

\* variant: the check always looks at the first variant of the product
ItemVariantIndex_FirstVariant(productData) ==
  0

\* productData.variantIndex || 0
ItemVariantIndex(productData) ==
  OrElse(productData.variantIndex, 0)

\* currentProduct.variants?.[variantIndex]: is there such a variant
HasVariant(productId, variantIndex) ==
  /\ productId \in DOMAIN variants
  /\ variantIndex + 1 \in DOMAIN variants[productId]

\* currentVariant.variantSellingPrice
CurrentPrice(productId, variantIndex) ==
  variants[productId][variantIndex + 1]

\* the wishlist items of one price sweep that reach sendPriceDropAlert
PriceDropped ==
  {i \in DOMAIN wishlistItems :
     LET item == wishlistItems[i]
         productData == item.productData
     IN /\ item.hasData /\ item.hasCustomer
        /\ HasVariant(item.productId, ItemVariantIndex(productData))
        /\ LessThan(CurrentPrice(item.productId, ItemVariantIndex(productData)),
                    StoredPrice(productData))}

\* variant: a successful alert leaves the cached price as it was
WithPrice_Unchanged(productData, currentPrice) ==
  productData

\* { ...productData, variantSellingPrice: currentPrice, price: currentPrice }
WithPrice(productData, currentPrice) ==
  [productData EXCEPT !.variantSellingPrice = currentPrice, !.price = currentPrice]

\* wishlistItems in the order findMany returns them
WishQueue ==
  [i \in 1..Len(wishlistItems) |-> i]

\* one run of the price sweep; failed are the items whose send reports no
\* success, thrownBefore those whose iteration throws before the alert is
\* sent, thrownAfter those whose wishlistItem.update throws
CheckWishlistPriceDropsSteps(failed, thrownBefore, thrownAfter) ==
  LET raised == thrownBefore \cup thrownAfter
      sent == (PriceDropped \cap Visited(WishQueue, raised)) \ thrownBefore
  IN
  /\ thrownBefore \subseteq DOMAIN wishlistItems
  /\ failed \subseteq sent
  /\ thrownAfter \subseteq sent \ failed
  /\ alerts' = alerts \cup
       {[kind |-> "priceDrop", item |-> i, run |-> wishRuns + 1,
         old |-> StoredPrice(wishlistItems[i].productData),
         new |-> CurrentPrice(wishlistItems[i].productId,
                              ItemVariantIndex(wishlistItems[i].productData)),
         ok |-> i \notin failed] : i \in sent}
  /\ wishlistItems' =
       [i \in DOMAIN wishlistItems |->
          IF i \in (sent \ failed) \ thrownAfter
          THEN [wishlistItems[i] EXCEPT !.productData =
                  WithPrice(@, CurrentPrice(wishlistItems[i].productId, ItemVariantIndex(@)))]
          ELSE wishlistItems[i]]
  /\ wishRuns' = wishRuns + 1
  /\ wishResult' = [success |-> TRUE,
                    alertsSent |-> Cardinality(sent \ failed),
                    totalChecked |-> Cardinality(DOMAIN wishlistItems)]
  /\ UNCHANGED <<variants, stock>>

\* one run of the price sweep in which no iteration throws
CheckWishlistPriceDrops(failed) ==
  CheckWishlistPriceDropsSteps(failed, {}, {})

\* productData.variantStockQuantity || 0
PreviousStock(productData) ==
  OrElse(productData.variantStockQuantity, 0)

\* the wishlist items of one stock check that reach sendBackInStockAlert
BackInStock(productId, variantIndex, newStockQuantity) ==
  {i \in DOMAIN wishlistItems :
     LET item == wishlistItems[i]
     IN /\ item.productId = productId
        /\ item.hasData /\ item.hasCustomer
        /\ ItemVariantIndex(item.productData) = variantIndex
        /\ PreviousStock(item.productData) = 0
        /\ LessThan(0, newStockQuantity)}

\* the wishlist items of one product in the order findMany returns them
ProductQueue(productId) ==
  SelectSeq(WishQueue, LAMBDA i : wishlistItems[i].productId = productId)

\* one stock update; failed are the items whose send reports no success,
\* thrownBefore those whose iteration throws before the alert is sent,
\* thrownAfter those whose wishlistItem.update throws
CheckWishlistBackInStockSteps(productId, variantIndex, newStockQuantity, failed, thrownBefore, thrownAfter) ==
  LET raised == thrownBefore \cup thrownAfter
      sent == (BackInStock(productId, variantIndex, newStockQuantity)
                 \cap Visited(ProductQueue(productId), raised)) \ thrownBefore
  IN /\ thrownBefore \subseteq DOMAIN wishlistItems
     /\ failed \subseteq sent
     /\ thrownAfter \subseteq sent \ failed
     /\ alerts' = alerts \cup
          {[kind |-> "backInStock", item |-> i, run |-> wishRuns + 1,
            old |-> PreviousStock(wishlistItems[i].productData),
            new |-> newStockQuantity,
            ok |-> i \notin failed] : i \in sent}
     /\ wishlistItems' =
          [i \in DOMAIN wishlistItems |->
             IF i \in (sent \ failed) \ thrownAfter
             THEN [wishlistItems[i] EXCEPT !.productData.variantStockQuantity = newStockQuantity]
             ELSE wishlistItems[i]]
     /\ wishRuns' = wishRuns + 1
     /\ wishResult' =
          [success |-> TRUE,
           alertsSent |-> Cardinality(sent \ failed),
           totalChecked |-> Cardinality({i \in DOMAIN wishlistItems :
                                           wishlistItems[i].productId = productId})]
     /\ UNCHANGED variants

\* one stock update in which no iteration throws
CheckWishlistBackInStock(productId, variantIndex, newStockQuantity, failed) ==
  CheckWishlistBackInStockSteps(productId, variantIndex, newStockQuantity, failed, {}, {})

(***************************************************************************)
(* getWishlist (backend/controllers/online/wishlistController.js).         *)
(***************************************************************************)
\* the productData of an item that has none: every field reads undefined
NoProductData ==
  [variantSellingPrice |-> Absent, price |-> Absent,
   variantIndex |-> Absent, variantStockQuantity |-> Absent]

\* one item as getWishlist leaves it; quantity is the stock of the item's
\* variant as read from the inventory
Refreshed(item, quantity) ==
  LET productData == IF item.hasData THEN item.productData ELSE NoProductData
      variantIndex == OrElse(productData.variantIndex, 0)
  IN IF ~HasVariant(item.productId, variantIndex) THEN item
     ELSE [item EXCEPT
             !.hasData = TRUE,
             !.productData =
               [productData EXCEPT
                  !.variantStockQuantity = OrElse(quantity, 0),
                  !.variantSellingPrice = CurrentPrice(item.productId, variantIndex)]]

\* GET wishlist of the customer who owns the items: every item is refreshed
\* from the live product and written back
GetWishlist(quantity) ==
  /\ wishlistItems' =
       [i \in DOMAIN wishlistItems |->
          IF wishlistItems[i].hasCustomer THEN Refreshed(wishlistItems[i], quantity)
          ELSE wishlistItems[i]]
  /\ Reply("getWishlist", 200, TRUE, "", {}, NoToken)
  /\ UNCHANGED <<variants, stock, alerts, wishRuns, wishResult>>
  /\ UNCHANGED <<store, reqs>>

(***************************************************************************)
(* generateExpenseNumber, createExpense                                    *)
(* (backend/controllers/online/wishlistController.js).                     *)
(***************************************************************************)
RECURSIVE Digits(_), PadStart(_, _), ParseInt(_)

\* nextNumber.toString(): the decimal digits of a natural number
Digits(n) ==
  IF n < 10 THEN <<n>> ELSE Digits(n \div 10) \o <<n % 10>>

\* padStart(targetLength, "0") on a string of digits
PadStart(digits, targetLength) ==
  IF Len(digits) >= targetLength THEN digits
  ELSE PadStart(<<0>> \o digits, targetLength)

\* parseInt(parts[2], 10) on a string of digits
ParseInt(digits) ==
  IF Len(digits) = 1 THEN digits[1]
  ELSE ParseInt(SubSeq(digits, 1, Len(digits) - 1)) * 10 + digits[Len(digits)]

\* `EXP-${currentYear}-${paddedNumber}`, kept as its three parts
ExpenseNumber(currentYear, nextNumber) ==
  <<"EXP", currentYear, PadStart(Digits(nextNumber), PadLength)>>

\* variant: the oldest expense of the year (orderBy createdAt asc)
LatestExpense_Oldest(currentYear) ==
  LET ofYear == {e \in expenses : e.expenseNumber[2] = currentYear}
  IN {e \in ofYear : \A o \in ofYear : e.createdAt <= o.createdAt}

\* expense.findFirst({ where: { expenseNumber: { startsWith: `EXP-${currentYear}-` } },
\*                     orderBy: { createdAt: "desc" } })
LatestExpense(currentYear) ==
  LET ofYear == {e \in expenses : e.expenseNumber[2] = currentYear}
  IN {e \in ofYear : \A o \in ofYear : e.createdAt >= o.createdAt}

GenerateExpenseNumber ==
  LET latestExpense == LatestExpense(year)
      nextNumber == IF latestExpense = {} THEN 1
                    ELSE ParseInt((CHOOSE e \in latestExpense : TRUE).expenseNumber[3]) + 1
  IN ExpenseNumber(year, nextNumber)

\* the expenseCategory and supplier tables
ExpenseCategories == {"cat1"}
Suppliers == {"sup1"}

\* supplierId && supplierId !== "other" && !supplierId.startsWith("manual_")
IsStoredSupplier(supplierId) ==
  supplierId \notin {Missing, "other", "manual_1"}

\* createExpense; hasFile says whether the request carries a receipt file
CreateExpense(categoryId, expense, amount, expenseDate, status, supplierId, hasFile) ==
  LET unchanged == UNCHANGED <<store, books>>
      upload == IF hasFile THEN <<"s3", "db">> ELSE <<>>
  IN
  IF Missing \in {categoryId, expense, amount, expenseDate}
  THEN /\ Reply("createExpense", 400, FALSE, "Missing required fields", {}, NoToken)
       /\ calls' = <<>>
       /\ unchanged
  ELSE IF status # Missing /\ status \notin {"pending", "paid"}
  THEN /\ Reply("createExpense", 400, FALSE,
                "Invalid status. Must be one of: pending, paid", {}, NoToken)
       /\ calls' = <<>>
       /\ unchanged
  ELSE IF categoryId \notin ExpenseCategories
  THEN /\ Reply("createExpense", 404, FALSE, "Expense category not found", {}, NoToken)
       /\ calls' = <<"db">>
       /\ unchanged
  ELSE IF IsStoredSupplier(supplierId) /\ supplierId \notin Suppliers
  THEN /\ Reply("createExpense", 404, FALSE, "Supplier not found", {}, NoToken)
       /\ calls' = <<"db">>
       /\ unchanged
  ELSE /\ expenses' = expenses \cup
            {[expenseNumber |-> GenerateExpenseNumber,
              categoryId |-> categoryId,
              expense |-> expense,
              amount |-> amount,
              supplierId |-> IF IsStoredSupplier(supplierId) THEN supplierId ELSE Missing,
              status |-> IF status = Missing THEN "pending" ELSE status,
              createdAt |-> now]}
       /\ now' = now + 1
       /\ Reply("createExpense", 201, TRUE, "Expense created successfully", {}, NoToken)
       /\ calls' = <<"db">> \o upload
       /\ UNCHANGED <<users, admins, customers, sessions, outbox, welcomes, nextId, year>>

(***************************************************************************)
(* SpecOtp: the OTP lifecycle of one account, requests one at a time.      *)
(***************************************************************************)
OtpCodes == {"111111", "222222"}
OtpEmails == {UserEmail, AdminEmailMixed}
Skews == 0..MaxSkew

NextOtp ==
  \/ /\ \E e \in OtpEmails, c \in OtpCodes, d \in Skews :
          MobileRegister(e, "pw1", "N", PhoneA, c, d)
     /\ UNCHANGED jobs
  \/ /\ \E e \in OtpEmails, c \in OtpCodes \cup {Missing} : VerifyOTP(e, c)
     /\ UNCHANGED jobs
  \/ /\ \E e \in OtpEmails, c \in OtpCodes, d \in Skews : ResendOTP(e, c, d)
     /\ UNCHANGED jobs
  \/ /\ ExternalSignup(UserEmail, PhoneA, "local")
     /\ UNCHANGED jobs
  \/ /\ Tick
     /\ UNCHANGED jobs

SpecOtp == Init /\ [][NextOtp]_vars

(***************************************************************************)
(* Spec: registration and login over both collections, requests one at a   *)
(* time, no time passing.                                                  *)
(***************************************************************************)
RegEmails == {UserEmail, AdminEmailMixed}
RegPhones == {PhoneA, PhoneB}

\* the mobileRegister requests <<email, phoneNumber, name>>: the well-formed
\* ones, and one for each validation failure
MobileRegisterRequests ==
  (RegEmails \X RegPhones \X {"N"})
    \cup {<<BadEmail, PhoneA, "N">>, <<UserEmail, BadPhone, "N">>, <<UserEmail, PhoneA, Missing>>}

\* the phoneRegister requests <<email, phoneNumber, firebaseToken>>
PhoneRegisterRequests ==
  (RegEmails \X RegPhones \X {FbA, FbB, FbBad})
    \cup {<<BadEmail, PhoneA, FbA>>, <<UserEmail, PhoneUS, FbUS>>, <<UserEmail, PhoneA, Missing>>}

\* the mobileLogin requests <<identifier, password, fcmToken>>
MobileLoginRequests ==
  ((RegEmails \cup RegPhones) \X {"pw1", "pw2"} \X {Missing})
    \cup {<<AdminEmailMixed, "pw1", "fcm-1">>,
          <<Missing, "pw1", Missing>>, <<UserEmail, Missing, Missing>>}

\* the phoneLogin requests <<phoneNumber, firebaseToken, fcmToken>>
PhoneLoginRequests ==
  (RegPhones \X {FbA, FbB, FbBad} \X {Missing})
    \cup {<<PhoneA, FbA, "fcm-1">>,
          <<Missing, FbA, Missing>>, <<PhoneA, Missing, Missing>>}

Next ==
  \/ /\ \E r \in MobileRegisterRequests : MobileRegister(r[1], "pw1", r[3], r[2], "111111", 0)
     /\ UNCHANGED jobs
  \/ /\ \E r \in PhoneRegisterRequests : PhoneRegister("N", r[1], r[2], "pw1", r[3])
     /\ UNCHANGED jobs
  \/ /\ \E e \in RegEmails, c \in OtpCodes : VerifyOTP(e, c)
     /\ UNCHANGED jobs
  \/ /\ \E r \in MobileLoginRequests : MobileLogin(r[1], r[2], r[3])
     /\ UNCHANGED jobs
  \/ /\ \E r \in PhoneLoginRequests : PhoneLogin(r[1], r[2], r[3])
     /\ UNCHANGED jobs
  \/ /\ \E a \in Accounts : Deactivate(a.id)
     /\ UNCHANGED jobs
  \/ /\ ExternalSignup(UserEmail, PhoneB, "google")
     /\ UNCHANGED jobs

Spec == Init /\ [][Next]_vars

(***************************************************************************)
(* SpecCart: customers fill carts and place orders during the first ten     *)
(* minutes, then time passes in steps of ten minutes while the sweep runs   *)
(* once an hour.                                                            *)
(***************************************************************************)
\* a customer puts an item into the cart
AddToCart(userId) ==
  /\ Cardinality(cartItems) < MaxCartItems
  /\ now <= TenMinutesMs
  /\ cartItems' = cartItems \cup
       {[userId |-> userId, createdAt |-> now, id |-> Cardinality(cartItems) + 1]}
  /\ UNCHANGED <<onlineOrders, reminders, lastSweep, sweepResult>>
  /\ UNCHANGED <<auth, wishes, books, effects>>

\* a customer places an order
PlaceOrder(userId) ==
  /\ Cardinality(onlineOrders) < MaxOrders
  /\ now <= TenMinutesMs
  /\ onlineOrders' = onlineOrders \cup {[userId |-> userId, createdAt |-> now]}
  /\ UNCHANGED <<cartItems, reminders, lastSweep, sweepResult>>
  /\ UNCHANGED <<auth, wishes, books, effects>>

\* the sweep is due: its first run, or one hour after its last run
SweepDue ==
  IF lastSweep = Never THEN now = TenMinutesMs ELSE now = lastSweep + HourMs

\* ten minutes pass, unless a run of the sweep is due first
CartTick ==
  /\ ~SweepDue
  /\ now + TenMinutesMs <= MaxCartTime
  /\ now' = now + TenMinutesMs
  /\ UNCHANGED <<users, admins, customers, sessions, outbox, welcomes, nextId, resp, reqs>>
  /\ UNCHANGED jobs

\* the hourly cron job
HourlySweep ==
  /\ lastSweep = Never \/ now = lastSweep + HourMs
  /\ lastSweep = Never => now <= TenMinutesMs
  /\ \E failed \in SUBSET CartUsers : CheckAbandonedCarts(failed)
  /\ UNCHANGED <<auth, wishes, books, effects>>

NextCart ==
  \/ \E u \in CartUsers : AddToCart(u)
  \/ \E u \in CartUsers : PlaceOrder(u)
  \/ CartTick
  \/ HourlySweep

SpecCart == Init /\ [][NextCart]_vars

(***************************************************************************)
(* SpecCartOk: as SpecCart, with every send succeeding and the first run of *)
(* the hourly job anywhere in the first fifty minutes.                      *)
(***************************************************************************)
\* the first run of the job is due at the latest fifty minutes in, later runs
\* one hour after the last
SweepDueOk ==
  IF lastSweep = Never THEN now = HourMs - TenMinutesMs ELSE now = lastSweep + HourMs

\* ten minutes pass, unless a run of the sweep is due first
CartTickOk ==
  /\ ~SweepDueOk
  /\ now + TenMinutesMs <= MaxCartTime
  /\ now' = now + TenMinutesMs
  /\ UNCHANGED <<users, admins, customers, sessions, outbox, welcomes, nextId, resp, reqs>>
  /\ UNCHANGED jobs

\* the hourly cron job, every send succeeding
HourlySweepOk ==
  /\ lastSweep = Never \/ now = lastSweep + HourMs
  /\ CheckAbandonedCarts({})
  /\ UNCHANGED <<auth, wishes, books, effects>>

NextCartOk ==
  \/ \E u \in CartUsers : AddToCart(u)
  \/ \E u \in CartUsers : PlaceOrder(u)
  \/ CartTickOk
  \/ HourlySweepOk

SpecCartOk == Init /\ [][NextCartOk]_vars

(***************************************************************************)
(* SpecWish: two wishlist items of one product, whose cached snapshots are  *)
(* what clients stored with addToWishlist; live prices change, stock comes  *)
(* in, and the two checks run.                                              *)
(***************************************************************************)
WishPrices == {80, 100}
WishProduct == "p1"

\* the productData snapshots a client may have stored
Snapshots ==
  [variantSellingPrice : {Absent, 0, 100},
   price : {Absent, 100},
   variantIndex : {Absent, 0, 1},
   variantStockQuantity : {Absent, 0, 3}]

\* a well-formed wishlist item of the product
WishItem(productData) ==
  [productId |-> WishProduct, hasData |-> TRUE, hasCustomer |-> TRUE,
   productData |-> productData]

\* the first item is any snapshot, or an item the checks skip (no productData,
\* no customer, product deleted); the second is a well-formed item of the
\* second variant, out of stock
InitWish ==
  /\ AuthInit
  /\ CartsInit
  /\ BooksInit
  /\ EffectsInit
  /\ \E first \in {WishItem(d) : d \in Snapshots}
         \cup {[WishItem(CHOOSE d \in Snapshots : TRUE) EXCEPT !.hasData = FALSE],
               [WishItem(CHOOSE d \in Snapshots : TRUE) EXCEPT !.hasCustomer = FALSE],
               [WishItem(CHOOSE d \in Snapshots : TRUE) EXCEPT !.productId = "gone"]} :
       wishlistItems = <<first,
                         WishItem([variantSellingPrice |-> 100, price |-> 100,
                                   variantIndex |-> 1, variantStockQuantity |-> 0])>>
  /\ variants = [p \in {WishProduct} |-> <<100, 100>>]
  /\ stock = [p \in {WishProduct} |-> <<0, 0>>]
  /\ alerts = {}
  /\ wishRuns = 0
  /\ wishResult = [success |-> TRUE, alertsSent |-> 0, totalChecked |-> 0]

\* the shop changes the live price of one variant
SetPrice(productId, variantIndex, price) ==
  /\ variants[productId][variantIndex + 1] # price
  /\ variants' = [variants EXCEPT ![productId][variantIndex + 1] = price]
  /\ UNCHANGED <<wishlistItems, stock, alerts, wishRuns, wishResult>>
  /\ UNCHANGED <<auth, carts, books, effects>>

\* the daily cron job
DailyPriceCheck ==
  /\ wishRuns < MaxWishRuns
  /\ \E failed \in SUBSET DOMAIN wishlistItems : CheckWishlistPriceDrops(failed)
  /\ UNCHANGED <<auth, carts, books, effects>>

\* a stock update of one variant: the new quantity is stored on the product
\* and reported to checkWishlistBackInStock
StockUpdate(productId, variantIndex, newStockQuantity) ==
  /\ wishRuns < MaxWishRuns
  /\ \E failed \in SUBSET DOMAIN wishlistItems :
       CheckWishlistBackInStock(productId, variantIndex, newStockQuantity, failed)
  /\ stock' = [stock EXCEPT ![productId][variantIndex + 1] = newStockQuantity]
  /\ UNCHANGED <<auth, carts, books, effects>>

NextWish ==
  \/ \E v \in {0, 1}, price \in WishPrices : SetPrice(WishProduct, v, price)
  \/ DailyPriceCheck
  \/ \E v \in {0, 1}, n \in {0, 5} : StockUpdate(WishProduct, v, n)

SpecWish == InitWish /\ [][NextWish]_vars

(***************************************************************************)
(* SpecExp: expenses created one after another, over several years; the    *)
(* table starts empty or holds the first SeedExpenses expenses of the year. *)
(***************************************************************************)
\* the table after n expenses were created one after another in one year
SeededExpenses(n) ==
  {[expenseNumber |-> ExpenseNumber(FirstYear, k), categoryId |-> "cat1", expense |-> "rent",
    amount |-> "10", supplierId |-> Missing, status |-> "pending", createdAt |-> k]
     : k \in 1..n}

InitExp ==
  /\ users = {} /\ admins = {} /\ customers = {} /\ sessions = {} /\ outbox = {}
  /\ welcomes = [i \in {} |-> 0]
  /\ nextId = 1
  /\ resp = NoResp
  /\ reqs = [s \in 1..MaxReqs |-> [op |-> "idle"]]
  /\ CartsInit /\ WishesInit
  /\ \E n \in {0, SeedExpenses} : expenses = SeededExpenses(n)
  /\ now = SeedExpenses + 1
  /\ year = FirstYear
  /\ EffectsInit

\* the createExpense requests <<categoryId, amount, status, supplierId, hasFile>>
CreateExpenseRequests ==
  {<<"cat1", "10", Missing, Missing, FALSE>>, <<"cat1", "10", "paid", "sup1", TRUE>>,
   <<"cat1", "10", Missing, "manual_1", FALSE>>,
   <<Missing, "10", Missing, Missing, FALSE>>, <<"cat1", Missing, Missing, Missing, TRUE>>,
   <<"cat1", "10", "bogus", Missing, TRUE>>, <<"nocat", "10", Missing, Missing, FALSE>>,
   <<"cat1", "10", Missing, "nosup", TRUE>>}

\* the requests SpecExp sends, MaxExpenses of them creating an expense
ExpenseRequest ==
  /\ Cardinality({e \in expenses : e.createdAt > SeedExpenses}) < MaxExpenses
  /\ \E r \in CreateExpenseRequests :
       CreateExpense(r[1], "rent", r[2], "2025-01-01", r[3], r[4], r[5])
  /\ UNCHANGED <<reqs, carts, wishes, dispatched>>

\* the calendar year ends
NewYear ==
  /\ year < MaxYear
  /\ year' = year + 1
  /\ now' = now + 1
  /\ UNCHANGED <<users, admins, customers, sessions, outbox, welcomes, nextId, resp, reqs>>
  /\ UNCHANGED <<carts, wishes, expenses, effects>>

NextExp ==
  \/ ExpenseRequest
  \/ NewYear

SpecExp == InitExp /\ [][NextExp]_vars

(***************************************************************************)
(* SpecFault: registration and resend when the steps that follow the        *)
(* account creation can fail, and the work scheduled with setImmediate runs *)
(* later and can fail too.                                                  *)
(***************************************************************************)
\* variant: a failed dispatch turns the response into an error
DispatchResponse_SurfaceFailure(response, succeeded) ==
  IF succeeded THEN response
  ELSE [response EXCEPT !.status = 500, !.success = FALSE]

\* the response after a setImmediate callback ran: its try/catch only logs
DispatchResponse(response, succeeded) ==
  response

\* a setImmediate callback runs: the email or notification is sent, or fails
Dispatch(job, succeeded) ==
  /\ job \in outbox
  /\ outbox' = outbox \ {job}
  /\ dispatched' = dispatched \cup {<<job, succeeded>>}
  /\ resp' = DispatchResponse(resp, succeeded)
  /\ UNCHANGED <<users, admins, customers, sessions, welcomes, now, nextId, reqs>>
  /\ UNCHANGED <<carts, wishes, books, calls>>

\* the mobileRegister requests of SpecFault, <<email, phoneNumber>>
FaultMobileRequests ==
  {<<UserEmail, PhoneA>>, <<AdminEmailMixed, PhoneB>>, <<BadEmail, PhoneA>>}

\* the phoneRegister requests of SpecFault, <<email, phoneNumber, firebaseToken>>
FaultPhoneRequests ==
  {<<UserEmail, PhoneA, FbA>>, <<OtherEmail, PhoneB, FbB>>,
   <<OtherEmail, PhoneB, FbA>>, <<OtherEmail, PhoneB, FbBad>>}

NextFault ==
  \/ /\ \E r \in FaultMobileRequests, customerError \in BOOLEAN :
          MobileRegisterSteps(r[1], "pw1", "N", r[2], "111111", 0, customerError)
     /\ UNCHANGED jobs
  \/ /\ \E r \in FaultPhoneRequests, customerError \in BOOLEAN, sessionError \in BOOLEAN :
          PhoneRegisterFaulty("N", r[1], r[2], "pw1", r[3], customerError, sessionError)
     /\ UNCHANGED jobs
  \/ /\ \E e \in {UserEmail, OtherEmail} : ResendOTP(e, "222222", 0)
     /\ UNCHANGED jobs
  \/ /\ Cardinality(dispatched) < MaxDispatched
     /\ \E job \in outbox, succeeded \in BOOLEAN : Dispatch(job, succeeded)

SpecFault == Init /\ [][NextFault]_vars

(***************************************************************************)
(* SpecPass: the three scheduler passes over two records each, where any    *)
(* iteration may throw and any send may report no success.                  *)
(***************************************************************************)
\* two well-formed wishlist items of the first variant, out of stock, cached
\* at a price above the live one
InitPass ==
  /\ AuthInit
  /\ CartsInit
  /\ BooksInit
  /\ EffectsInit
  /\ wishlistItems =
       <<WishItem([variantSellingPrice |-> 100, price |-> 100,
                   variantIndex |-> 0, variantStockQuantity |-> 0]),
         WishItem([variantSellingPrice |-> 100, price |-> 100,
                   variantIndex |-> Absent, variantStockQuantity |-> Absent])>>
  /\ variants = [p \in {WishProduct} |-> <<80, 100>>]
  /\ stock = [p \in {WishProduct} |-> <<0, 0>>]
  /\ alerts = {}
  /\ wishRuns = 0
  /\ wishResult = [success |-> TRUE, alertsSent |-> 0, totalChecked |-> 0]

\* an hour passes
PassHour ==
  /\ now + HourMs <= MaxPassTime
  /\ now' = now + HourMs
  /\ UNCHANGED <<users, admins, customers, sessions, outbox, welcomes, nextId, resp, reqs>>
  /\ UNCHANGED jobs

\* a run of checkAbandonedCarts, at most one at each instant
PassSweep(failed, thrown) ==
  /\ lastSweep # now
  /\ CheckAbandonedCartsSteps(failed, thrown)
  /\ UNCHANGED <<auth, wishes, books, effects>>

\* a run of checkWishlistPriceDrops
PassPriceCheck(failed, thrownBefore, thrownAfter) ==
  /\ wishRuns < MaxPassRuns
  /\ CheckWishlistPriceDropsSteps(failed, thrownBefore, thrownAfter)
  /\ UNCHANGED <<auth, carts, books, effects>>

\* a call of checkWishlistBackInStock
PassStockUpdate(newStockQuantity, failed, thrownBefore, thrownAfter) ==
  /\ wishRuns < MaxPassRuns
  /\ CheckWishlistBackInStockSteps(WishProduct, 0, newStockQuantity,
                                   failed, thrownBefore, thrownAfter)
  /\ stock' = [stock EXCEPT ![WishProduct][1] = newStockQuantity]
  /\ UNCHANGED <<auth, carts, books, effects>>

NextPass ==
  \/ \E u \in CartUsers : AddToCart(u)
  \/ PassHour
  \/ \E failed \in SUBSET CartUsers, thrown \in SUBSET CartUsers : PassSweep(failed, thrown)
  \/ \E failed \in SUBSET {1, 2}, thrownBefore \in SUBSET {1, 2}, thrownAfter \in SUBSET {1, 2} :
       PassPriceCheck(failed, thrownBefore, thrownAfter)
  \/ \E n \in {0, 5}, failed \in SUBSET {1, 2}, thrownBefore \in SUBSET {1, 2},
        thrownAfter \in SUBSET {1, 2} :
       PassStockUpdate(n, failed, thrownBefore, thrownAfter)

SpecPass == InitPass /\ [][NextPass]_vars

(***************************************************************************)
(* SpecRefresh: live prices change, customers open their wishlist and the   *)
(* daily price check runs. Each item notes, when a live price falls below   *)
(* its cached price, how many checks had run by then (dropRun).             *)
(***************************************************************************)
\* a wishlist item with its note
NotedItem(productData) ==
  [productId |-> WishProduct, hasData |-> TRUE, hasCustomer |-> TRUE,
   productData |-> productData, dropRun |-> Absent]

\* two items of the two variants, cached at the live price
InitRefresh ==
  /\ AuthInit
  /\ CartsInit
  /\ BooksInit
  /\ EffectsInit
  /\ wishlistItems =
       <<NotedItem([variantSellingPrice |-> 100, price |-> 100,
                    variantIndex |-> 0, variantStockQuantity |-> 0]),
         NotedItem([variantSellingPrice |-> 100, price |-> 100,
                    variantIndex |-> 1, variantStockQuantity |-> 3])>>
  /\ variants = [p \in {WishProduct} |-> <<100, 100>>]
  /\ stock = [p \in {WishProduct} |-> <<0, 0>>]
  /\ alerts = {}
  /\ wishRuns = 0
  /\ wishResult = [success |-> TRUE, alertsSent |-> 0, totalChecked |-> 0]

\* the shop changes the live price of one variant; an item of that variant
\* whose cached price is now above the live price notes the drop
SetPriceNoted(productId, variantIndex, price) ==
  /\ variants[productId][variantIndex + 1] # price
  /\ variants' = [variants EXCEPT ![productId][variantIndex + 1] = price]
  /\ wishlistItems' =
       [i \in DOMAIN wishlistItems |->
          LET item == wishlistItems[i] IN
          IF item.productId = productId /\ ItemVariantIndex(item.productData) = variantIndex
          THEN [item EXCEPT !.dropRun = IF LessThan(price, StoredPrice(item.productData))
                                        THEN wishRuns ELSE Absent]
          ELSE item]
  /\ UNCHANGED <<stock, alerts, wishRuns, wishResult>>
  /\ UNCHANGED <<auth, carts, books, effects>>

\* a customer opens the wishlist
OpenWishlist ==
  /\ \E quantity \in {0, 5} : GetWishlist(quantity)
  /\ UNCHANGED <<carts, books, effects>>

NextRefresh ==
  \/ \E v \in {0, 1}, price \in WishPrices : SetPriceNoted(WishProduct, v, price)
  \/ OpenWishlist
  \/ DailyPriceCheck

SpecRefresh == InitRefresh /\ [][NextRefresh]_vars

(***************************************************************************)
(* SpecExpConc: overlapping createExpense requests. A handler computes the  *)
(* expense number (await generateExpenseNumber()), and its                  *)
(* prisma.expense.create runs later, with the number it computed.           *)
(***************************************************************************)
\* does createExpense reach generateExpenseNumber with these fields
ExpenseAccepted(categoryId, expense, amount, expenseDate, status, supplierId) ==
  /\ Missing \notin {categoryId, expense, amount, expenseDate}
  /\ status = Missing \/ status \in {"pending", "paid"}
  /\ categoryId \in ExpenseCategories
  /\ ~(IsStoredSupplier(supplierId) /\ supplierId \notin Suppliers)

\* createExpense up to and including generateExpenseNumber
CreateExpenseStart(s, categoryId, expense, amount, expenseDate, status, supplierId, hasFile) ==
  /\ reqs[s] = [op |-> "idle"]
  /\ IF ExpenseAccepted(categoryId, expense, amount, expenseDate, status, supplierId)
     THEN /\ reqs' = [reqs EXCEPT ![s] =
                        [op |-> "createExpense",
                         expenseNumber |-> GenerateExpenseNumber,
                         categoryId |-> categoryId, expense |-> expense, amount |-> amount,
                         supplierId |-> IF IsStoredSupplier(supplierId)
                                        THEN supplierId ELSE Missing,
                         status |-> IF status = Missing THEN "pending" ELSE status]]
          /\ calls' = <<"db">> \o (IF hasFile THEN <<"s3", "db">> ELSE <<>>)
          /\ UNCHANGED <<store, resp, books>>
     ELSE /\ CreateExpense(categoryId, expense, amount, expenseDate, status, supplierId, hasFile)
          /\ UNCHANGED reqs

\* createExpense from prisma.expense.create on
CreateExpenseFinish(s) ==
  /\ reqs[s].op = "createExpense"
  /\ expenses' = expenses \cup
       {[expenseNumber |-> reqs[s].expenseNumber,
         categoryId |-> reqs[s].categoryId,
         expense |-> reqs[s].expense,
         amount |-> reqs[s].amount,
         supplierId |-> reqs[s].supplierId,
         status |-> reqs[s].status,
         createdAt |-> now]}
  /\ now' = now + 1
  /\ Reply("createExpense", 201, TRUE, "Expense created successfully", {}, NoToken)
  /\ reqs' = [reqs EXCEPT ![s] = [op |-> "idle"]]
  /\ UNCHANGED <<users, admins, customers, sessions, outbox, welcomes, nextId, year, calls>>

\* GET next expense number: the number is computed and returned, nothing is stored
GetNextExpenseNumber ==
  /\ Reply("getNextExpenseNumber", 200, TRUE, GenerateExpenseNumber, {}, NoToken)
  /\ calls' = <<"db">>
  /\ UNCHANGED <<store, reqs, books>>

NextExpConc ==
  \/ /\ Cardinality(expenses) < MaxExpenses
     /\ \E s \in 1..MaxReqs, r \in CreateExpenseRequests :
          CreateExpenseStart(s, r[1], "rent", r[2], "2025-01-01", r[3], r[4], r[5])
     /\ UNCHANGED <<carts, wishes, dispatched>>
  \/ /\ \E s \in 1..MaxReqs : CreateExpenseFinish(s)
     /\ UNCHANGED <<carts, wishes, dispatched>>
  \/ /\ GetNextExpenseNumber
     /\ UNCHANGED <<carts, wishes, dispatched>>

SpecExpConc == Init /\ [][NextExpConc]_vars

(***************************************************************************)
(* SpecRegConc: overlapping registrations. A handler runs its existence     *)
(* checks (await findUnique / findFirst), and its create runs later, after  *)
(* await bcrypt.hash. email is what findUnique looks up, so a create with   *)
(* an email its collection already holds throws; phoneNumber is looked up   *)
(* with findFirst and the create stores whatever it is given.              *)
(***************************************************************************)
\* does mobileRegister get past its validations and existence checks
MobileRegisterPasses(email, password, name, phoneNumber) ==
  /\ email # Missing /\ password # Missing /\ name # Missing /\ phoneNumber # Missing
  /\ EmailRegexTest(email)
  /\ PhoneRegexTest(phoneNumber)
  /\ FindByEmail(users, email) = {} /\ FindByEmail(admins, email) = {}
  /\ FindByPhone(users, phoneNumber) = {} /\ FindByPhone(admins, phoneNumber) = {}

\* mobileRegister up to its existence checks
MobileRegisterStart(s, email, password, name, phoneNumber) ==
  /\ reqs[s] = [op |-> "idle"]
  /\ IF MobileRegisterPasses(email, password, name, phoneNumber)
     THEN /\ reqs' = [reqs EXCEPT ![s] = [op |-> "mobileRegister", email |-> email,
                                          password |-> password, name |-> name,
                                          phoneNumber |-> phoneNumber]]
          /\ UNCHANGED <<store, resp>>
     ELSE MobileRegisterSteps(email, password, name, phoneNumber, "111111", 0, FALSE)

\* mobileRegister from bcrypt.hash on
MobileRegisterFinish(s, otp) ==
  LET r == reqs[s]
      own == IF ToLower(r.email) = ADMIN_EMAIL THEN admins ELSE users
  IN
  /\ r.op = "mobileRegister"
  /\ reqs' = [reqs EXCEPT ![s] = [op |-> "idle"]]
  /\ IF FindByEmail(own, r.email) # {}
     THEN Reject("mobileRegister", 500, "Registration failed", {})
     ELSE MobileRegisterCreate(r.email, r.password, r.name, r.phoneNumber, otp, 0, FALSE)

\* does phoneRegister get past its validations and existence checks
PhoneRegisterPasses(decodedToken, name, email, phoneNumber, password) ==
  /\ ~PhoneMismatch(decodedToken, phoneNumber)
  /\ EmailRegexTest(email)
  /\ StrictPhoneRegexTest(phoneNumber)
  /\ FindAny(users, email, phoneNumber, decodedToken.uid) = {}
  /\ FindAny(admins, email, phoneNumber, decodedToken.uid) = {}

\* phoneRegister up to its existence checks
PhoneRegisterStart(s, name, email, phoneNumber, password, firebaseToken) ==
  /\ reqs[s] = [op |-> "idle"]
  /\ IF /\ Missing \notin {name, email, phoneNumber, password, firebaseToken}
        /\ \E d \in VerifyIdToken(firebaseToken) :
             PhoneRegisterPasses(d, name, email, phoneNumber, password)
     THEN \E d \in VerifyIdToken(firebaseToken) :
            /\ reqs' = [reqs EXCEPT ![s] = [op |-> "phoneRegister", decodedToken |-> d,
                                            name |-> name, email |-> email,
                                            phoneNumber |-> phoneNumber,
                                            password |-> password]]
            /\ UNCHANGED <<store, resp>>
     ELSE PhoneRegister(name, email, phoneNumber, password, firebaseToken)

\* phoneRegister from bcrypt.hash on
PhoneRegisterFinish(s) ==
  LET r == reqs[s] IN
  /\ r.op = "phoneRegister"
  /\ reqs' = [reqs EXCEPT ![s] = [op |-> "idle"]]
  /\ IF FindByEmail(users, r.email) # {}
     THEN Reject("phoneRegister", 500, "Registration failed. Please try again.", {})
     ELSE PhoneRegisterCreate(r.decodedToken, r.name, r.email, r.phoneNumber, r.password,
                              FALSE, FALSE)

\* the registrations of SpecRegConc, <<email, phoneNumber>>
ConcRegistrations ==
  {<<UserEmail, PhoneA>>, <<OtherEmail, PhoneA>>, <<OtherEmail, PhoneB>>}

NextRegConc ==
  \/ /\ \E s \in 1..MaxReqs, r \in ConcRegistrations :
          MobileRegisterStart(s, r[1], "pw1", "N", r[2])
     /\ UNCHANGED jobs
  \/ /\ \E s \in 1..MaxReqs : MobileRegisterFinish(s, "111111")
     /\ UNCHANGED jobs
  \/ /\ \E s \in 1..MaxReqs, r \in ConcRegistrations, fb \in {FbA, FbB} :
          PhoneRegisterStart(s, "N", r[1], r[2], "pw1", fb)
     /\ UNCHANGED jobs
  \/ /\ \E s \in 1..MaxReqs : PhoneRegisterFinish(s)
     /\ UNCHANGED jobs

SpecRegConc == Init /\ [][NextRegConc]_vars

(***************************************************************************)
(* SpecSync: registration and verification with the best-effort customer   *)
(* steps succeeding or failing; time passes, so an OTP can expire.          *)
(***************************************************************************)
\* the verifyOTP requests of SpecSync, <<email, otp>>
SyncVerifyRequests ==
  {<<UserEmail, "111111">>, <<UserEmail, "222222">>, <<OtherEmail, "111111">>,
   <<AdminEmailMixed, "111111">>}

NextSync ==
  \/ /\ \E r \in FaultMobileRequests, c \in OtpCodes, customerError \in BOOLEAN :
          MobileRegisterSteps(r[1], "pw1", "N", r[2], c, 0, customerError)
     /\ UNCHANGED jobs
  \/ /\ \E r \in FaultPhoneRequests, customerError \in BOOLEAN :
          PhoneRegisterFaulty("N", r[1], r[2], "pw1", r[3], customerError, FALSE)
     /\ UNCHANGED jobs
  \/ /\ \E r \in SyncVerifyRequests, customerError \in BOOLEAN :
          VerifyOTPFaulty(r[1], r[2], customerError)
     /\ UNCHANGED jobs
  \/ /\ \E e \in {UserEmail} : ResendOTP(e, "222222", 0)
     /\ UNCHANGED jobs
  \/ /\ Tick
     /\ UNCHANGED jobs

SpecSync == Init /\ [][NextSync]_vars

(***************************************************************************)
(* SpecTrace: every handler, with well-formed, incomplete and malformed     *)
(* requests; calls holds the calls the handler made for the last request.   *)
(***************************************************************************)
\* the emails, phone numbers and Firebase tokens the traced requests carry
TraceEmails == {UserEmail, BadEmail, Missing}
TracePhones == {PhoneA, PhoneB, Missing}
TraceTokens == {FbA, FbB, FbBad}

\* the phoneRegister requests of SpecTrace, <<email, phoneNumber, firebaseToken>>
TracePhoneRequests ==
  {<<OtherEmail, PhoneB, FbB>>, <<OtherEmail, PhoneB, FbA>>, <<OtherEmail, PhoneB, FbBad>>,
   <<OtherEmail, PhoneB, Missing>>, <<BadEmail, PhoneB, FbB>>, <<Missing, PhoneB, FbB>>,
   <<OtherEmail, PhoneUS, FbUS>>, <<BadEmail, PhoneA, FbB>>}

\* the createExpense requests of SpecTrace,
\* <<categoryId, amount, status, supplierId, hasFile>>
TraceExpenseRequests ==
  {<<"cat1", "10", "paid", "sup1", TRUE>>, <<"cat1", Missing, "paid", "sup1", TRUE>>,
   <<"cat1", "10", "late", "sup1", TRUE>>, <<"nocat", "10", "paid", "sup1", TRUE>>}

\* what a traced step leaves alone
TraceFrame ==
  UNCHANGED <<carts, wishes, books, dispatched>>

NextTrace ==
  \/ /\ \E e \in TraceEmails, p \in {PhoneA, BadPhone} :
          /\ MobileRegister(e, "pw1", "N", p, "111111", 0)
          /\ calls' = MobileRegisterCalls(e, "pw1", "N", p)
     /\ TraceFrame
  \/ /\ \E e \in TraceEmails, c \in {"111111", Missing} :
          /\ VerifyOTP(e, c)
          /\ calls' = VerifyOTPCalls(e, c)
     /\ TraceFrame
  \/ /\ \E e \in {OtherEmail, BadEmail, Missing} :
          /\ ResendOTP(e, "222222", 0)
          /\ calls' = ResendOTPCalls(e)
     /\ TraceFrame
  \/ /\ \E i \in TraceEmails \cup {PhoneB}, pw \in {"pw1", Missing} :
          /\ MobileLogin(i, pw, Missing)
          /\ calls' = MobileLoginCalls(i, pw)
     /\ TraceFrame
  \/ /\ \E r \in TracePhoneRequests :
          /\ PhoneRegister("N", r[1], r[2], "pw1", r[3])
          /\ calls' = PhoneRegisterCalls("N", r[1], r[2], "pw1", r[3])
     /\ TraceFrame
  \/ /\ \E p \in TracePhones, fb \in TraceTokens :
          /\ PhoneLogin(p, fb, Missing)
          /\ calls' = PhoneLoginCalls(p, fb)
     /\ TraceFrame
  \/ /\ \E p \in TracePhones, pw \in {LongPassword, ShortPassword}, fb \in TraceTokens :
          /\ ResetPasswordWithPhone(p, pw, fb)
          /\ calls' = ResetPasswordCalls(p, pw, fb)
     /\ TraceFrame
  \/ /\ Cardinality(expenses) < MaxTraceExpenses
     /\ \E r \in TraceExpenseRequests :
          CreateExpense(r[1], "rent", r[2], "2025-01-01", r[3], r[4], r[5])
     /\ UNCHANGED <<reqs, carts, wishes, dispatched>>

SpecTrace == Init /\ [][NextTrace]_vars

(***************************************************************************)
(* SpecFcm: one phone-registered account logging in from many devices.     *)
(***************************************************************************)
\* the device token of device k
FcmToken(k) ==
  ToString(k)

\* the tokens a login of account a may carry: a device not in its list (the
\* lowest-numbered one), or one of the devices that keep coming back
OfferedTokens(a) ==
  LET held == {a.fcmTokens[i].token : i \in 1..Len(a.fcmTokens)}
      free == {k \in 1..MaxTokens : FcmToken(k) \notin held}
  IN {FcmToken(k) : k \in {j \in free : \A i \in free : j <= i}}
     \cup {FcmToken(k) : k \in 1..MaxReturning}

NextFcm ==
  \/ /\ PhoneRegister("N", UserEmail, PhoneA, "pw1", FbA)
     /\ UNCHANGED jobs
  \/ /\ \E a \in users : \E t \in OfferedTokens(a) : MobileLogin(a.email, "pw1", t)
     /\ UNCHANGED jobs
  \/ /\ \E a \in users : \E t \in OfferedTokens(a) : PhoneLogin(a.phoneNumber, FbA, t)
     /\ UNCHANGED jobs

SpecFcm == Init /\ [][NextFcm]_vars

(***************************************************************************)
(* SpecConc: overlapping verifyOTP and resendOTP requests. A handler reads  *)
(* the account (await findUnique), and what it does after that await runs   *)
(* later, on the record it read.                                            *)
(***************************************************************************)
Idle ==
  [op |-> "idle"]

\* verifyOTP up to the account lookup
VerifyStart(s, email, otp) ==
  /\ reqs[s] = Idle
  /\ IF email = Missing \/ otp = Missing
     THEN Reject("verifyOTP", 400, "Email and OTP are required", {}) /\ UNCHANGED reqs
     ELSE IF FindAccount(email) = {}
     THEN Reject("verifyOTP", 404, "User not found", {}) /\ UNCHANGED reqs
     ELSE \E f \in FindAccount(email) :
            /\ reqs' = [reqs EXCEPT ![s] = [op |-> "verifyOTP", user |-> f[1],
                                            userType |-> f[2], otp |-> otp]]
            /\ UNCHANGED <<store, resp>>

\* verifyOTP after the account lookup
VerifyFinish(s) ==
  /\ reqs[s].op = "verifyOTP"
  /\ VerifyFound(reqs[s].user, reqs[s].userType, reqs[s].otp)
  /\ reqs' = [reqs EXCEPT ![s] = Idle]

\* resendOTP up to the account lookup
ResendStart(s, email) ==
  /\ reqs[s] = Idle
  /\ IF email = Missing
     THEN Reject("resendOTP", 400, "Email is required", {}) /\ UNCHANGED reqs
     ELSE IF FindAccount(email) = {}
     THEN Reject("resendOTP", 404, "User not found", {}) /\ UNCHANGED reqs
     ELSE \E f \in FindAccount(email) :
            /\ reqs' = [reqs EXCEPT ![s] = [op |-> "resendOTP", user |-> f[1],
                                            userType |-> f[2]]]
            /\ UNCHANGED <<store, resp>>

\* resendOTP after the account lookup
ResendFinish(s, otp, skew) ==
  /\ reqs[s].op = "resendOTP"
  /\ ResendFound(reqs[s].user, reqs[s].userType, otp, skew)
  /\ reqs' = [reqs EXCEPT ![s] = Idle]

Slots == 1..MaxReqs

NextConc ==
  \/ /\ \E e \in OtpEmails : MobileRegister(e, "pw1", "N", PhoneA, "111111", 0)
     /\ UNCHANGED jobs
  \/ /\ \E s \in Slots, e \in OtpEmails, c \in OtpCodes : VerifyStart(s, e, c)
     /\ UNCHANGED jobs
  \/ /\ \E s \in Slots : VerifyFinish(s)
     /\ UNCHANGED jobs
  \/ /\ \E s \in Slots, e \in OtpEmails : ResendStart(s, e)
     /\ UNCHANGED jobs
  \/ /\ \E s \in Slots : ResendFinish(s, "111111", 0)
     /\ UNCHANGED jobs

SpecConc == Init /\ [][NextConc]_vars

(***************************************************************************)
(* Properties.                                                             *)
(***************************************************************************)
AccountsNext == users' \cup admins'

\* the accounts with this email
WithEmail(S, email) ==
  {a \in S : a.email = email}

\* the last entry of a non-empty OTP list
Newest(otps) ==
  otps[Len(otps)]

\* C1: after mobileRegister and any number of resendOTP calls on an unverified
\* account, its emailOTPs list has at most 5 entries and its last entry is the
\* OTP generated by the most recent of these calls: every account has at most 5
\* entries, a successful mobileRegister or resendOTP leaves the code it generated
\* in the last entry, and no other step changes the list of an account that
\* stays unverified.
C1_OtpListCappedNewestLast ==
  [][/\ \A a \in AccountsNext : Len(a.emailOTPs) <= 5
     /\ \A e \in OtpEmails, c \in OtpCodes, d \in Skews :
          (MobileRegister(e, "pw1", "N", PhoneA, c, d) /\ resp'.success)
            => \E a \in WithEmail(AccountsNext, e) :
                 /\ ~a.isVerified
                 /\ Len(a.emailOTPs) = 1
                 /\ Newest(a.emailOTPs).otp = c
     /\ \A e \in OtpEmails, c \in OtpCodes, d \in Skews :
          (ResendOTP(e, c, d) /\ "otpSent" \in resp'.flags)
            => \E a \in WithEmail(AccountsNext, e) :
                 /\ ~a.isVerified
                 /\ Len(a.emailOTPs) >= 1
                 /\ Newest(a.emailOTPs).otp = c
                 /\ Newest(a.emailOTPs).createdAt = now'
     /\ \A a \in Accounts : \A b \in AccountsNext :
          (a.id = b.id /\ ~b.isVerified /\ a.emailOTPs # b.emailOTPs)
            => \E c \in OtpCodes, d \in Skews :
                 ResendOTP(a.email, c, d) /\ "otpSent" \in resp'.flags
    ]_vars

\* C1 witness: a resendOTP has just been answered for an unverified account
\* whose list is full, and a code mailed to it earlier is no longer in the list
C1_Witness ==
  /\ resp.op = "resendOTP" /\ "otpSent" \in resp.flags
  /\ \E a \in Accounts :
       /\ ~a.isVerified
       /\ Len(a.emailOTPs) = 5
       /\ \A i \in 1..5 : a.emailOTPs[i].otp = "111111"
       /\ <<"otpEmail", a.email, "222222">> \in outbox

\* C2: verifyOTP on an unverified account with a code equal to a stored entry
\* whose expiry is still in the future sets isVerified and empties emailOTPs;
\* a verified account stays verified, and every verifyOTP for a verified account
\* answers success with alreadyVerified and changes nothing.
C2_VerifyThenAlreadyVerified ==
  [][/\ \A e \in OtpEmails, c \in OtpCodes : \A a \in WithEmail(Accounts, e) :
          VerifyOTP(e, c) =>
            /\ (/\ ~a.isVerified
                /\ \E i \in 1..Len(a.emailOTPs) :
                     a.emailOTPs[i].otp = c /\ a.emailOTPs[i].expiresAt > now)
                 => \E b \in AccountsNext :
                      b.id = a.id /\ b.isVerified /\ b.emailOTPs = <<>>
            /\ a.isVerified
                 => /\ resp'.success /\ resp'.status = 200
                    /\ "alreadyVerified" \in resp'.flags
                    /\ UNCHANGED store
     /\ \A a \in Accounts : a.isVerified =>
          \E b \in AccountsNext : b.id = a.id /\ b.isVerified
    ]_vars

\* C2 witness: a second verifyOTP has been answered alreadyVerified for an
\* account that an earlier verifyOTP verified and cleared
C2_Witness ==
  /\ resp.op = "verifyOTP" /\ "alreadyVerified" \in resp.flags
  /\ \E a \in Accounts : a.isVerified /\ a.emailOTPs = <<>>
  /\ \E id \in DOMAIN welcomes : welcomes[id] = 1

\* C3: on an unverified account a verifyOTP carrying a code fails exactly when
\* no stored entry both equals the code and is unexpired; it then changes
\* nothing and answers "no OTP" when the list is empty, "expired" (expired:
\* true) when some entry equals the code, and "invalid" when none does.
C3_VerifyFailureKinds ==
  [][\A e \in OtpEmails, c \in OtpCodes : \A a \in WithEmail(Accounts, e) :
       (VerifyOTP(e, c) /\ ~a.isVerified) =>
         LET otps == a.emailOTPs
             equal == {i \in 1..Len(otps) : otps[i].otp = c}
             live == {i \in equal : otps[i].expiresAt > now}
         IN IF live # {} THEN resp'.success
            ELSE /\ ~resp'.success /\ resp'.status = 400
                 /\ UNCHANGED store
                 /\ Len(otps) = 0 =>
                      /\ resp'.message = "No OTP found. Please request a new OTP."
                      /\ resp'.flags = {}
                 /\ (Len(otps) > 0 /\ equal # {}) =>
                      /\ resp'.message = "OTP has expired. Please request a new OTP."
                      /\ resp'.flags = {"expired"}
                 /\ (Len(otps) > 0 /\ equal = {}) =>
                      /\ resp'.message = "Invalid OTP. Please check and try again."
                      /\ resp'.flags = {}
    ]_vars

\* C3 witness: the "expired" answer, for an unverified account whose newest
\* entry is live and differs from an older, expired one
C3_Witness ==
  /\ resp.op = "verifyOTP" /\ resp.flags = {"expired"}
  /\ \E a \in Accounts :
       /\ ~a.isVerified
       /\ Len(a.emailOTPs) >= 2
       /\ Newest(a.emailOTPs).expiresAt > now
       /\ a.emailOTPs[1].expiresAt <= now
       /\ a.emailOTPs[1].otp # Newest(a.emailOTPs).otp

\* C4: every successful mobileRegister persists an account whose emailOTPs
\* list has exactly one entry, and that entry's expiresAt is exactly 10 minutes
\* after its own createdAt.
C4_RegisterOtpExpiryTenMinutes ==
  [][\A e \in OtpEmails, c \in OtpCodes, d \in Skews :
       (MobileRegister(e, "pw1", "N", PhoneA, c, d) /\ resp'.status = 201)
         => \E a \in WithEmail(AccountsNext, e) :
              /\ Len(a.emailOTPs) = 1
              /\ a.emailOTPs[1].expiresAt = a.emailOTPs[1].createdAt + 10 * 60 * 1000
    ]_vars

\* C5: in every reachable state, under any interleaving of mobileRegister,
\* verifyOTP and resendOTP requests for one email, an account whose isVerified
\* flag is true has an empty emailOTPs list.
C5_VerifiedHasNoOtps ==
  \A a \in Accounts : a.isVerified => a.emailOTPs = <<>>

\* C6: an account is verified at most once: of all verifyOTP requests for one
\* regular-user account, overlapping ones included, at most one answers "Email
\* verified successfully" and schedules the welcome notification.
C6_VerifiedAtMostOnce ==
  \A id \in DOMAIN welcomes : welcomes[id] <= 1

\* no two accounts of S share an email or a phone number
Unique(S) ==
  \A a \in S : \A b \in S :
    a.id # b.id => (a.email # b.email /\ a.phoneNumber # b.phoneNumber)

\* an account of either collection has this email or this phone number
Taken(email, phoneNumber) ==
  \E a \in Accounts : a.email = email \/ a.phoneNumber = phoneNumber

\* the step creates no account, no customer and no session
CreatesNothing ==
  /\ AccountsNext = Accounts
  /\ customers' = customers
  /\ sessions' = sessions

\* C7 as stated: after any sequence of mobileRegister and phoneRegister
\* requests run one at a time no two accounts of the two collections share an
\* email or a phone number, and a registration whose email or phone number
\* belongs to an account is rejected with status 400 and creates nothing.
C7_DuplicateRejectedWith400 ==
  [][/\ Unique(AccountsNext)
     /\ resp'.op = "mobileRegister" =>
          \A r \in MobileRegisterRequests :
            (Taken(r[1], r[2]) /\ MobileRegister(r[1], "pw1", r[3], r[2], "111111", 0))
              => (~resp'.success /\ resp'.status = 400 /\ CreatesNothing)
     /\ resp'.op = "phoneRegister" =>
          \A r \in PhoneRegisterRequests :
            (Taken(r[1], r[2]) /\ PhoneRegister("N", r[1], r[2], "pw1", r[3]))
              => (~resp'.success /\ resp'.status = 400 /\ CreatesNothing)
    ]_vars

\* C7 amended: uniqueness as stated; a registration whose email or phone number
\* belongs to an account is rejected and creates nothing, with status 400,
\* except that phoneRegister answers 401 when its Firebase token is invalid or
\* carries another phone number, which it checks first.
C7_DuplicateRejected ==
  [][/\ Unique(AccountsNext)
     /\ resp'.op = "mobileRegister" =>
          \A r \in MobileRegisterRequests :
            (Taken(r[1], r[2]) /\ MobileRegister(r[1], "pw1", r[3], r[2], "111111", 0))
              => (~resp'.success /\ resp'.status = 400 /\ CreatesNothing)
     /\ resp'.op = "phoneRegister" =>
          \A r \in PhoneRegisterRequests :
            (Taken(r[1], r[2]) /\ PhoneRegister("N", r[1], r[2], "pw1", r[3]))
              => /\ ~resp'.success /\ CreatesNothing
                 /\ resp'.status =
                      IF r[3] # Missing /\ \A d \in VerifyIdToken(r[3]) : d.phone_number # r[2]
                      THEN 401 ELSE 400
    ]_vars

\* C7 witness: a phoneRegister has been answered 400 "already exists" while
\* each collection holds an account
C7_Witness ==
  /\ resp.op = "phoneRegister" /\ resp.status = 400
  /\ resp.message = "Account already exists with this email or phone number. Please sign in."
  /\ users # {} /\ admins # {}
  /\ Unique(Accounts)

\* the accounts an identifier of mobileLogin designates
Matching(identifier) ==
  {a \in Accounts : a.email = identifier \/ a.phoneNumber = identifier}

\* the mobileLogin requests that carry an identifier and a password
FullLoginRequests ==
  {r \in MobileLoginRequests : r[1] # Missing /\ r[2] # Missing}

\* C8: mobileLogin answers identically (same status, same error message) when
\* no account matches the identifier and when an active, verified account
\* matches but the password is wrong: the step that answers the wrong-password
\* login of an account is also the step that answers the login of an unknown
\* identifier i2.
C8_NotFoundSameAsWrongPassword ==
  [][resp'.op = "mobileLogin" =>
       \A r \in FullLoginRequests, i2 \in RegEmails \cup RegPhones :
         (/\ MobileLogin(r[1], r[2], r[3])
          /\ \E a \in Matching(r[1]) :
               /\ a.isActive /\ a.isVerified
               /\ a.password # NoPassword /\ a.password # Hash(r[2])
          /\ Matching(i2) = {})
           => MobileLogin(i2, r[2], r[3])
    ]_vars

\* C9 as stated: mobileLogin with the correct password on an account with
\* isActive = false answers an error other than the wrong-password error, and
\* mobileLogin on any account with isVerified = false answers an error carrying
\* needsVerification: true; neither issues a session token.
C9_InactiveAndUnverifiedErrors ==
  [][resp'.op = "mobileLogin" =>
       \A r \in FullLoginRequests : \A a \in Matching(r[1]) :
         MobileLogin(r[1], r[2], r[3]) =>
           /\ (~a.isActive /\ a.password = Hash(r[2]))
                => /\ ~resp'.success /\ resp'.message # "Invalid email or password"
                   /\ resp'.token = NoToken /\ sessions' = sessions
           /\ ~a.isVerified
                => /\ ~resp'.success /\ "needsVerification" \in resp'.flags
                   /\ resp'.token = NoToken /\ sessions' = sessions
    ]_vars

\* C9 amended: as stated for the inactive account; needsVerification: true is
\* answered to mobileLogin on any active account with isVerified = false (an
\* inactive one gets the deactivated error whatever its isVerified); no login
\* of an inactive or unverified account issues a session token.
C9_InactiveAndActiveUnverifiedErrors ==
  [][resp'.op = "mobileLogin" =>
       \A r \in FullLoginRequests : \A a \in Matching(r[1]) :
         MobileLogin(r[1], r[2], r[3]) =>
           /\ (~a.isActive /\ a.password = Hash(r[2]))
                => /\ ~resp'.success /\ resp'.message # "Invalid email or password"
           /\ (a.isActive /\ ~a.isVerified)
                => /\ ~resp'.success /\ "needsVerification" \in resp'.flags
           /\ (~a.isActive \/ ~a.isVerified)
                => /\ ~resp'.success
                   /\ resp'.token = NoToken /\ sessions' = sessions
    ]_vars

\* C9 witness: a mobileLogin has been answered needsVerification for an active
\* unverified account, while another account is deactivated
C9_Witness ==
  /\ resp.op = "mobileLogin" /\ "needsVerification" \in resp.flags
  /\ \E a \in Accounts : a.isActive /\ ~a.isVerified
  /\ \E b \in Accounts : ~b.isActive

\* the tokens of an fcmTokens list
TokenSet(l) ==
  {l[i].token : i \in 1..Len(l)}

\* C10: after any sequence of successful mobileLogin and phoneLogin calls
\* carrying FCM tokens, fcmTokens has at most 10 entries and no token twice,
\* the token of the login just answered is at the front, and a login with a
\* token already in the list keeps the list's length and tokens.
C10_FcmTokensBounded ==
  [][/\ \A a \in AccountsNext :
          /\ Len(a.fcmTokens) <= 10
          /\ \A i \in 1..Len(a.fcmTokens) : \A j \in 1..Len(a.fcmTokens) :
               i # j => a.fcmTokens[i].token # a.fcmTokens[j].token
     /\ \A a \in users : \A t \in OfferedTokens(a) :
          (/\ MobileLogin(a.email, "pw1", t) \/ PhoneLogin(a.phoneNumber, FbA, t)
           /\ resp'.success)
            => \E b \in AccountsNext :
                 /\ b.id = a.id
                 /\ Len(b.fcmTokens) >= 1
                 /\ b.fcmTokens[1].token = t
                 /\ t \in TokenSet(a.fcmTokens)
                      => /\ Len(b.fcmTokens) = Len(a.fcmTokens)
                         /\ TokenSet(b.fcmTokens) = TokenSet(a.fcmTokens)
    ]_vars

\* C10 witness: a full list of 10 from which device 1 has been dropped, with
\* device 2 back at the front, ahead of device 11
C10_Witness ==
  /\ resp.op \in {"mobileLogin", "phoneLogin"} /\ resp.success
  /\ \E a \in users :
       /\ Len(a.fcmTokens) = 10
       /\ a.fcmTokens[1].token = FcmToken(2)
       /\ a.fcmTokens[2].token = FcmToken(11)
       /\ FcmToken(1) \notin TokenSet(a.fcmTokens)

(***************************************************************************)
(* The abandoned-cart sweep.                                               *)
(***************************************************************************)
\* the reminders one run (at time t) sent to one customer
SentTo(S, userId, t) ==
  {r \in S : r.userId = userId /\ r.at = t}

\* C11: run hourly, the sweep sends a customer at most one reminder of each
\* type for one cart (a cart is the same cart as long as its newest item is
\* the same, and an order placed at or after that item ends it).
C11_OneReminderPerTypePerCart ==
  \A r1, r2 \in reminders :
    (r1.userId = r2.userId /\ r1.type = r2.type /\ r1.last = r2.last) => r1.at = r2.at

\* the timestamps the windows are probed with at time t: every ten minutes
\* back to the start of the clock, and each window edge with its neighbours
ProbeTimestamps(t) ==
  LET edges == {t - HourMs - TenMinutesMs, t - HourMs + TenMinutesMs,
                t - DayMs - HourMs, t - DayMs + HourMs,
                t - ThreeDaysMs - TwoHoursMs, t - ThreeDaysMs + TwoHoursMs}
  IN {t - k * TenMinutesMs : k \in 0..(t \div TenMinutesMs)}
     \cup {e + d : e \in edges, d \in {-1, 0, 1}}

\* how many of the three windows hold the timestamp
WindowsHolding(lastCartActivity, t) ==
  Cardinality({w \in {1, 2, 3} :
     \/ w = 1 /\ InOneHourWindow(lastCartActivity, t)
     \/ w = 2 /\ InTwentyFourHourWindow(lastCartActivity, t)
     \/ w = 3 /\ InThreeDaysWindow(lastCartActivity, t)})

\* C12: in a run of the sweep no timestamp lies in two windows, a customer is
\* sent at most one reminder, and a customer without a later order whose
\* newest cart item is 50 to 70 minutes old is sent exactly one reminder, of
\* type '1hour'.
C12_WindowsDisjointOneHourReminder ==
  [][HourlySweep =>
       /\ \A ts \in ProbeTimestamps(now) : WindowsHolding(ts, now) <= 1
       /\ \A u \in CartUsers : Cardinality(SentTo(reminders', u, now)) <= 1
       /\ \A u \in CustomersWithCarts :
            LET age == now - LastCartActivity(u)
            IN (/\ age >= HourMs - TenMinutesMs
                /\ age <= HourMs + TenMinutesMs
                /\ ~ \E o \in onlineOrders : o.userId = u /\ o.createdAt >= LastCartActivity(u))
               => /\ Cardinality(SentTo(reminders', u, now)) = 1
                  /\ \A r \in SentTo(reminders', u, now) : r.type = "1hour"]_vars

\* the sweep has just sent a '1hour' reminder for a cart exactly 70 minutes
\* old, the far edge of the window
C12_Witness ==
  /\ lastSweep = now
  /\ \E r \in reminders :
       r.type = "1hour" /\ r.at = now /\ r.at - r.last = HourMs + TenMinutesMs

\* C13: a run of the sweep sends nothing to a customer who has an order created
\* at or after the newest cart item.
C13_NoReminderAfterOrder ==
  [][HourlySweep =>
       \A u \in CustomersWithCarts :
         (\E o \in onlineOrders : o.userId = u /\ o.createdAt >= LastCartActivity(u))
           => SentTo(reminders', u, now) = {}]_vars

\* the sweep has just run over a customer whose cart is exactly one hour or
\* exactly 24 hours old and who ordered in the very millisecond of the newest
\* cart item: nothing was sent to that customer
C13_Witness ==
  /\ lastSweep = now
  /\ \E u \in CustomersWithCarts :
       /\ now - LastCartActivity(u) \in {HourMs, DayMs}
       /\ \E o \in onlineOrders : o.userId = u /\ o.createdAt = LastCartActivity(u)
       /\ SentTo(reminders, u, now) = {}

(***************************************************************************)
(* The wishlist checks.                                                    *)
(***************************************************************************)
\* the alerts of one kind that run number run sent for one wishlist item
AlertsFor(S, kind, i, run) ==
  {a \in S : a.kind = kind /\ a.item = i /\ a.run = run}

\* the live price of the variant a wishlist item records
LivePrice(item) ==
  variants[item.productId][OrElse(item.productData.variantIndex, 0) + 1]

\* the wishlist items the checks can process: with a snapshot, a customer and
\* a live variant
Checkable ==
  {i \in DOMAIN wishlistItems :
     /\ wishlistItems[i].hasData /\ wishlistItems[i].hasCustomer
     /\ wishlistItems[i].productId \in DOMAIN variants
     /\ OrElse(wishlistItems[i].productData.variantIndex, 0) + 1
          \in DOMAIN variants[wishlistItems[i].productId]}

\* C14: a run of the price sweep over an item whose cached price (the cached
\* variantSellingPrice, else the cached price) is strictly higher than the live
\* price of its recorded variant sends exactly one alert for the item and, when
\* the send succeeds, makes the cached price the live price; and a run sends no
\* alert for an item that was already alerted successfully of the price that
\* is still the live price.
C14_PriceDropAlertedOnce ==
  [][DailyPriceCheck =>
       \A i \in Checkable :
         LET item == wishlistItems[i]
             cached == OrElse(item.productData.variantSellingPrice, item.productData.price)
             sent == AlertsFor(alerts', "priceDrop", i, wishRuns')
         IN /\ (cached # Absent /\ LivePrice(item) < cached)
                 => /\ Cardinality(sent) = 1
                    /\ \A a \in sent :
                         a.ok => /\ wishlistItems'[i].productData.variantSellingPrice = LivePrice(item)
                                 /\ wishlistItems'[i].productData.price = LivePrice(item)
            /\ (\E a \in alerts : /\ a.kind = "priceDrop" /\ a.item = i /\ a.ok
                                  /\ a.new = LivePrice(item))
                 => sent = {}]_vars

\* the first run alerted item 1 of the drop to the price that is still live;
\* the second run was a price sweep too (it alerted item 2) and sent nothing
\* for item 1
C14_Witness ==
  /\ wishRuns = 2
  /\ \E a \in AlertsFor(alerts, "priceDrop", 1, 1) : a.ok /\ a.new = LivePrice(wishlistItems[1])
  /\ AlertsFor(alerts, "priceDrop", 2, 2) # {}
  /\ AlertsFor(alerts, "priceDrop", 1, 2) = {}

\* C15: a stock check for (productId, variantIndex, newStock) alerts a wishlist
\* item only if the item is of that product, its cached variant index equals
\* variantIndex, its cached stock was zero and newStock > 0; a successful send
\* sets the cached stock to newStock, and every other item stays as it was
\* (cached index and stock as the check reads them: an absent field reads 0).
C15_BackInStockOnlyFromZero ==
  [][\A v \in {0, 1}, n \in {0, 5} :
       StockUpdate(WishProduct, v, n) =>
         \A i \in DOMAIN wishlistItems :
           LET item == wishlistItems[i]
               sent == AlertsFor(alerts', "backInStock", i, wishRuns')
           IN /\ sent # {} =>
                   /\ item.productId = WishProduct
                   /\ OrElse(item.productData.variantIndex, 0) = v
                   /\ OrElse(item.productData.variantStockQuantity, 0) = 0
                   /\ n > 0
              /\ \A a \in sent : a.ok => wishlistItems'[i].productData.variantStockQuantity = n
              /\ (\A a \in sent : ~a.ok) => wishlistItems'[i] = item]_vars

\* the last check alerted an item that was out of stock and cached the new
\* stock, and left alone an item of the same variant caching a stock of 3
C15_Witness ==
  /\ wishRuns > 0
  /\ \E a \in alerts :
       /\ a.kind = "backInStock" /\ a.ok /\ a.run = wishRuns /\ a.new = 5
       /\ wishlistItems[a.item].productData.variantStockQuantity = 5
       /\ \E i \in DOMAIN wishlistItems :
            /\ wishlistItems[i].hasData /\ wishlistItems[i].hasCustomer
            /\ wishlistItems[i].productId = wishlistItems[a.item].productId
            /\ OrElse(wishlistItems[i].productData.variantIndex, 0)
                 = OrElse(wishlistItems[a.item].productData.variantIndex, 0)
            /\ wishlistItems[i].productData.variantStockQuantity = 3
            /\ AlertsFor(alerts, "backInStock", i, wishRuns) = {}

(***************************************************************************)
(* Expense numbering.                                                      *)
(***************************************************************************)
\* C16: an expense created by createExpense is numbered EXP-<year>-<sequence>
\* with the current year; the first one of a year has sequence 001, a later
\* one a sequence strictly greater than that of every earlier expense of the
\* year; the sequence is written with at least three digits, zero-padded; and
\* writing and reading back a sequence number is lossless up to MaxSequence.
C16_ExpenseNumbersIncrease ==
  [][(ExpenseRequest /\ resp'.status = 201) =>
       LET created == expenses' \ expenses
           new == CHOOSE e \in created : TRUE
           digits == new.expenseNumber[3]
           earlier == {e \in expenses : e.expenseNumber[2] = year}
       IN /\ Cardinality(created) = 1
          /\ new.expenseNumber[1] = "EXP"
          /\ new.expenseNumber[2] = year
          /\ earlier = {} => digits = <<0, 0, 1>>
          /\ \A e \in earlier : ParseInt(digits) > ParseInt(e.expenseNumber[3])
          /\ Len(digits) >= 3
          /\ Len(digits) > 3 => digits[1] # 0
          /\ now = SeedExpenses + 1 =>
               \A n \in 1..MaxSequence :
                 /\ ExpenseNumber(year, n)[3] = PadStart(Digits(n), 3)
                 /\ ParseInt(ExpenseNumber(year, n)[3]) = n
                 /\ Len(ExpenseNumber(year, n)[3]) = IF n < 1000 THEN 3 ELSE 4]_vars

\* the table holds expense 100 of the first year and the second expense of a
\* later year
C16_Witness ==
  /\ \E e \in expenses : e.expenseNumber = <<"EXP", FirstYear, <<1, 0, 0>>>>
  /\ \E e \in expenses : e.expenseNumber[2] > FirstYear /\ e.expenseNumber[3] = <<0, 0, 2>>

(***************************************************************************)
(* Failures after the account creation, and the scheduled dispatches.      *)
(***************************************************************************)
\* C17: a registration that persists an account row answers 201 success,
\* whatever fails afterwards; an error response means no account was created.
C17_AccountCreatedImpliesSuccess ==
  [][AccountsNext # Accounts => (resp'.success /\ resp'.status = 201)]_vars

\* C18: mobileRegister and resendOTP answer with success in the step that
\* schedules the OTP email and the new-user alert, these are dispatched only
\* by a later step, and that step leaves the response as it was sent, whether
\* the dispatch succeeds or fails.
C18_ResponseBeforeDispatch ==
  [][/\ \A job \in outbox' \ outbox :
          job[1] \in {"otpEmail", "newUserAlert"} =>
            /\ resp'.op \in {"mobileRegister", "resendOTP"}
            /\ resp'.success /\ resp'.status \in {200, 201}
            /\ "otpSent" \in resp'.flags
            /\ \A d \in dispatched' : d[1] # job \/ d \in dispatched
     /\ \A d \in dispatched' \ dispatched :
          /\ d[1] \in outbox
          /\ resp' = resp]_vars

\* the OTP email of a resend failed to go out after the success response, and
\* a new-user alert failed too
C18_Witness ==
  /\ resp.op = "resendOTP" /\ resp.success
  /\ \E d \in dispatched : d[1][1] = "otpEmail" /\ d[1][3] = "222222" /\ ~d[2]
  /\ \E d \in dispatched : d[1][1] = "newUserAlert" /\ ~d[2]


\* the messages of the validation errors: a required field is missing or a
\* field is malformed
ValidationMessages ==
  {"Email, password, name, and phone number are required",
   "Invalid email format",
   "Invalid phone number format",
   "Email and OTP are required",
   "Email is required",
   "Email or phone number and password are required",
   "All fields are required including Firebase token",
   "Invalid phone number format. Use +91XXXXXXXXXX",
   "Phone number and Firebase token are required",
   "Phone number, new password, and Firebase token are required",
   "Password must be at least 6 characters",
   "Missing required fields",
   "Invalid status. Must be one of: pending, paid"}

\* C19: a request answered with a validation error (a missing or a malformed
\* field) was rejected before any database access and before any call to an
\* external service: the handler made no call for it.
C19_ValidationBeforeAnyCall ==
  resp.status = 400 /\ resp.message \in ValidationMessages => calls = <<>>


\* the answer to a request whose verified phone number is not the claimed one
MismatchReply(op) ==
  [op |-> op, status |-> 401, success |-> FALSE,
   message |-> "Phone number mismatch. Please try again.", flags |-> {}, token |-> NoToken]

\* the token verifies, to a phone number other than phoneNumber
VerifiedAsAnother(firebaseToken, phoneNumber) ==
  /\ VerifyIdToken(firebaseToken) # {}
  /\ \A d \in VerifyIdToken(firebaseToken) : d.phone_number # phoneNumber

\* C20: a phoneRegister, phoneLogin or resetPasswordWithPhone request that has
\* its required fields (and, for a reset, a password of 6 characters or more)
\* and whose Firebase token verifies to a phone number other than the one the
\* request claims is answered 401 "Phone number mismatch", creates no account,
\* registers no session, returns no token and changes no stored account.
C20_PhoneMismatchRejected ==
  [][/\ \A r \in TracePhoneRequests :
          /\ r[1] # Missing /\ r[2] # Missing /\ r[3] # Missing
          /\ VerifiedAsAnother(r[3], r[2])
          /\ PhoneRegister("N", r[1], r[2], "pw1", r[3])
          => resp' = MismatchReply("phoneRegister") /\ UNCHANGED store
     /\ \A p \in TracePhones, fb \in TraceTokens :
          /\ p # Missing
          /\ VerifiedAsAnother(fb, p)
          /\ PhoneLogin(p, fb, Missing)
          => resp' = MismatchReply("phoneLogin") /\ UNCHANGED store
     /\ \A p \in TracePhones, fb \in TraceTokens :
          /\ p # Missing
          /\ VerifiedAsAnother(fb, p)
          /\ ResetPasswordWithPhone(p, LongPassword, fb)
          => resp' = MismatchReply("resetPasswordWithPhone") /\ UNCHANGED store]_vars

\* a reset claiming the phone number of a registered account, with a token
\* verified (one Firebase call, no query) for another number, was answered
\* with the mismatch error and the account kept its password
C20_Witness ==
  /\ resp = MismatchReply("resetPasswordWithPhone")
  /\ calls = <<"firebase">>
  /\ \E a \in users : a.phoneNumber = PhoneB /\ a.password = Hash("pw1")
  /\ \E a \in users : a.phoneNumber = PhoneA


\* C21: every customer record linked to a user account carries the account's
\* isVerified value.
C21_CustomerVerifiedInSync ==
  \A c \in customers : \A a \in users :
    c.userId = a.id => c.isVerified = a.isVerified


\* C22: in each of the three passes, whichever iterations throw and whichever
\* sends report no success, every record that is due an alert and whose own
\* iteration does not throw before the send gets its alert, and the pass
\* returns success: true with alertsSent the number of sends that succeeded.
C22_RecordErrorsDoNotAbort ==
  [][/\ \A failed \in SUBSET CartUsers, thrown \in SUBSET CartUsers :
          PassSweep(failed, thrown) =>
            /\ \A u \in Reminded(now) \ thrown :
                 \E r \in reminders' : r.userId = u /\ r.at = now
            /\ sweepResult'.success
            /\ sweepResult'.alertsSent =
                 Cardinality({r \in reminders' : r.at = now /\ r.userId \notin failed})
     /\ \A failed \in SUBSET {1, 2}, thrownBefore \in SUBSET {1, 2}, thrownAfter \in SUBSET {1, 2} :
          PassPriceCheck(failed, thrownBefore, thrownAfter) =>
            /\ \A i \in PriceDropped \ thrownBefore :
                 \E a \in alerts' : a.kind = "priceDrop" /\ a.item = i /\ a.run = wishRuns'
            /\ wishResult'.success
            /\ wishResult'.alertsSent = Cardinality({a \in alerts' : a.run = wishRuns' /\ a.ok})
     /\ \A n \in {0, 5}, failed \in SUBSET {1, 2}, thrownBefore \in SUBSET {1, 2},
           thrownAfter \in SUBSET {1, 2} :
          PassStockUpdate(n, failed, thrownBefore, thrownAfter) =>
            /\ \A i \in BackInStock(WishProduct, 0, n) \ thrownBefore :
                 \E a \in alerts' : a.kind = "backInStock" /\ a.item = i /\ a.run = wishRuns'
            /\ wishResult'.success
            /\ wishResult'.alertsSent = Cardinality({a \in alerts' : a.run = wishRuns' /\ a.ok})]_vars

\* both customers were due a reminder in the sweep that just ran and only the
\* second got one (the iteration of the first threw), counted by the sweep;
\* the last wishlist check alerted only its second item, the first still due
C22_Witness ==
  /\ lastSweep = now
  /\ Reminded(now) = {"u1", "u2"}
  /\ {r.userId : r \in {q \in reminders : q.at = now}} = {"u2"}
  /\ sweepResult = [success |-> TRUE, alertsSent |-> 1, totalChecked |-> 2]
  /\ wishRuns > 0
  /\ {a.item : a \in {b \in alerts : b.run = wishRuns}} = {2}
  /\ 1 \in PriceDropped
  /\ wishResult = [success |-> TRUE, alertsSent |-> 1, totalChecked |-> 2]


\* C23: resendOTP for an email whose account is already verified answers 200
\* with success and alreadyVerified: true, and changes nothing: no OTP is
\* stored, no email is queued, the account keeps isVerified and emailOTPs.
C23_ResendVerifiedIsNoOp ==
  [][\A e \in OtpEmails, c \in OtpCodes, d \in Skews :
       /\ \E f \in FindAccount(e) : f[1].isVerified
       /\ ResendOTP(e, c, d)
       => /\ resp' = [op |-> "resendOTP", status |-> 200, success |-> TRUE,
                      message |-> "Email already verified",
                      flags |-> {"alreadyVerified"}, token |-> NoToken]
          /\ outbox' = outbox
          /\ users' = users /\ admins' = admins
          /\ UNCHANGED store]_vars

\* the last request was a resendOTP answered alreadyVerified, for an account
\* that is verified and holds no OTP
C23_Witness ==
  /\ resp.op = "resendOTP" /\ resp.status = 200 /\ "alreadyVerified" \in resp.flags
  /\ \E a \in Accounts : a.isVerified /\ a.emailOTPs = <<>> /\ a.provider = "local"


\* C24: once the newest item of a cart without an order is older than the end
\* of the '3days' window, the hourly job has sent its customer, for that cart,
\* the '1hour', the '24hours' and the '3days' reminder exactly once each.
C24_EachReminderExactlyOnce ==
  \A u \in CustomersWithCarts :
    /\ RecentOrders(u, LastCartActivity(u)) = {}
    /\ now - LastCartActivity(u) > ThreeDaysMs + TwoHoursMs
    => \A type \in {"1hour", "24hours", "3days"} :
         Cardinality({r \in reminders :
                        r.userId = u /\ r.last = LastCartActivity(u) /\ r.type = type}) = 1


\* C25: every session token issued and registered with the session tracker
\* belongs to an account whose isVerified flag is true.
C25_NoSessionForUnverified ==
  \A session \in sessions : \A a \in Accounts :
    a.id = session[1] => a.isVerified


\* C26: a run of the price check alerts every item for which the live price
\* fell below the cached price since the last run (and was not changed again),
\* whatever getWishlist calls happened in between.
C26_DropAlertedByNextRun ==
  [][DailyPriceCheck =>
       \A i \in DOMAIN wishlistItems :
         wishlistItems[i].dropRun = wishRuns =>
           \E a \in alerts' : a.kind = "priceDrop" /\ a.item = i /\ a.run = wishRuns']_vars


\* C27: no two persisted expenses carry the same expenseNumber.
C27_ExpenseNumbersUnique ==
  \A e1, e2 \in expenses : e1.expenseNumber = e2.expenseNumber => e1 = e2


\* C28: no two accounts, in users and admins together, hold the same phone
\* number.
C28_PhoneNumbersUnique ==
  \A a1, a2 \in Accounts : a1.phoneNumber = a2.phoneNumber => a1.id = a2.id


\* the reasons for which mobileLogin is to refuse a request
MobileLoginRefused(identifier, password) ==
  \/ identifier = Missing
  \/ password = Missing
  \/ FindLogin(identifier) = {}
  \/ \E f \in FindLogin(identifier) :
       \/ ~f[1].isActive
       \/ ~f[1].isVerified
       \/ f[1].password = NoPassword
       \/ ~Compare(password, f[1].password)

\* the reasons for which phoneLogin is to refuse a request
PhoneLoginRefused(phoneNumber, firebaseToken) ==
  \/ phoneNumber = Missing
  \/ firebaseToken = Missing
  \/ VerifyIdToken(firebaseToken) = {}
  \/ \E d \in VerifyIdToken(firebaseToken) : d.phone_number # phoneNumber
  \/ \A a \in users : a.phoneNumber # phoneNumber
  \/ \E a \in users : a.phoneNumber = phoneNumber /\ ~a.isActive

\* C29: a mobileLogin or phoneLogin request that is to be refused (a missing
\* field, no such account, an inactive, unverified or Google-only account, a
\* wrong password, a bad or mismatching Firebase token) is answered without
\* success and without a token, and changes no account (lastLogin and
\* fcmTokens included), no customer and no session.
C29_RejectedLoginChangesNothing ==
  [][/\ \A r \in MobileLoginRequests :
          MobileLogin(r[1], r[2], r[3]) /\ MobileLoginRefused(r[1], r[2])
            => /\ UNCHANGED <<users, admins, customers, sessions>>
               /\ ~resp'.success /\ resp'.token = NoToken
     /\ \A r \in PhoneLoginRequests :
          PhoneLogin(r[1], r[2], r[3]) /\ PhoneLoginRefused(r[1], r[2])
            => /\ UNCHANGED <<users, admins, customers, sessions>>
               /\ ~resp'.success /\ resp'.token = NoToken]_vars

\* a login with a wrong password was refused for an account that had logged in
\* before
C29_Witness ==
  /\ resp.op = "mobileLogin"
  /\ resp.status = 401
  /\ resp.message = "Invalid email or password"
  /\ \E a \in users : /\ a.isActive /\ a.isVerified
                      /\ a.lastLogin # SchemaDefaults.lastLogin
                      /\ \E session \in sessions : session[1] = a.id


\* C30: a stock update that takes a variant from stock 0 to a positive stock
\* sends a back-in-stock alert for every wishlist item of that variant that
\* was already alerted once (its cached stock was set to a positive value by
\* that alert).
C30_EveryRestockAlerts ==
  [][\A v \in {0, 1} :
       StockUpdate(WishProduct, v, 5) /\ stock[WishProduct][v + 1] = 0
         => \A i \in DOMAIN wishlistItems :
              /\ ItemVariantIndex(wishlistItems[i].productData) = v
              /\ \E a \in alerts : a.kind = "backInStock" /\ a.item = i /\ a.ok
              => \E a \in alerts' : a.kind = "backInStock" /\ a.item = i /\ a.run = wishRuns']_vars

====
